---- MODULE Spec2Model ----
(***************************************************************************)
(* State-machine model of the lollms_functions_zoo plugins:                *)
(*   - LongTermMemoryFunction  (context_updater/long_term_memory)          *)
(*   - FunctionCallBuilder._run_generation_loop  (boost mode)              *)
(*   - DeepSearch.update_context                                           *)
(*   - PersistentShell / ExecuteBashCommand                                *)
(*   - FolderStructureToText.execute                                       *)
(*   - GitHubRepoManager.execute, CreateReadme.execute                     *)
(* Each plugin is an independent machine with its own specification; the   *)
(* variables of the other plugins stay at their initial values.            *)
(***************************************************************************)
EXTENDS Integers, Sequences, FiniteSets, TLC

VARIABLES
    \* ---- long-term memory ----
    memory_path,     \* content of ~/lollms_memory.json (a JSON document or text)
    pc,              \* per invocation: position inside process_output
    memory_json,     \* per invocation: the local memory_json of process_output
    todo,            \* per invocation: commands of the batch not yet attempted
    section_bound,   \* per invocation: is the local `section` bound yet
    cmd,             \* per invocation: the command attempted last
    outcome,         \* per invocation: the path verify_and_fix_memory took, then
                     \* how process_output ended
    turns,           \* number of process_output / update_context calls so far
    active,          \* the invocations that run (one host session each)
    llm_output,      \* per invocation: the llm_output process_output was given
    returned,        \* per invocation: what its last process_output returned
    read_json,       \* per invocation: the document verify_and_fix_memory gave it
    memory_content,  \* static_parameters.memory_content of the instance
    settings_updates, \* settings_updated calls so far
    \* ---- boost mode: FunctionCallBuilder._run_generation_loop ----
    b_pc,                       \* position inside _run_generation_loop
    max_correction_iterations,  \* the static parameter of the run
    loop_i,                     \* the loop variable i
    current_content,            \* the attempt under review (1 is the initial one)
    best_content,
    min_problems,
    iterations_done,
    reflections,                \* the num_problems_detected reported, per evaluation
    reflection_data,            \* the reflection output parsed last
    \* ---- deep search: DeepSearch.update_context ----
    ds_pc,               \* position inside update_context
    max_iterations,      \* the max_iterations parameter of the call
    iteration,           \* the loop variable
    all_results,         \* results accumulated over the iterations
    iteration_summaries, \* one summary per analysed iteration
    constructed_context, \* what the call appended to the context
    calls,               \* search, analysis and synthesis calls made, log files written
    returned_urls,       \* every URL a search call of this run returned
    analyses,            \* what followed "SUFFICIENT:" in each analysis, in order
    synthesis_input,     \* the summaries the synthesis prompt was built from
    parameters,          \* the parameters the call extracted
    \* ---- PersistentShell / ExecuteBashCommand.execute ----
    sh_pc,           \* position inside ExecuteBashCommand.execute
    produced,        \* the lines the reader thread has put on the queue, in order
    output_queue,    \* PersistentShell.output_queue
    output_lines,    \* the local output_lines of PersistentShell.execute
    timed_out,       \* output_queue.get raised queue.Empty
    sh_result,       \* what ExecuteBashCommand.execute returned
    \* ---- FolderStructureToText.execute ----
    ft_pc,                      \* position inside execute
    folder_path,                \* kwargs["folder_path"]
    exclude_patterns,           \* kwargs["exclude_patterns"]
    exclusion_preset,           \* static parameter
    save_to_discussion_folder,  \* static parameter
    ft_discussion_folder,       \* client.discussion.discussion_folder: "none" or "ok"
    pending,                    \* items listed and not yet visited, in visiting order
    tree_lines,                 \* the tree view: one item per line
    found_files,                \* the text files collected for the contents section
    listed,                     \* directories whose iterdir() was consumed
    files_read,                 \* files opened by _read_file_content
    copy_written,               \* textraction_<name>.md was written
    ft_result,                  \* what execute returned
    \* ---- GitHubRepoManager.execute / CreateReadme.execute ----
    g_pc,               \* position inside GitHubRepoManager.execute
    g_calls,            \* calls of either execute so far
    discussion_folder,  \* the client's discussion folder: "none", "missing", "ok"
    dot_git,            \* discussion_folder/.git exists
    origin_added,       \* the origin remote was added
    repo_created,       \* the GitHub repository exists
    pushes,             \* for every push attempted: was origin added then
    readme_written,     \* README.md was written
    g_result,           \* how the last GitHubRepoManager.execute ended
    rd_result,          \* how the last CreateReadme.execute ended
    \* ---- update_context of the plugins ----
    cx_pc,        \* position of the call
    cx_plugin,    \* the plugin called
    cx_input,     \* constructed_context as the call received it
    cx_list,      \* the list object constructed_context, mutated in place
    cx_script,    \* the list operations left on the path taken, and its end
    cx_returned,  \* the list the call returned
    \* ---- OutlookAgendaContext ----
    o_pc,            \* position inside get_events_for_date
    cache_file,      \* content of outlook_cache.json
    cache_duration,  \* static parameter, minutes
    now,             \* datetime.now(), minutes
    o_caller,        \* who called get_events_for_date
    date_arg,        \* the date it was given
    o_synced,        \* sync_with_outlook was called in this call
    o_events,        \* what get_events_for_date returned
    agenda_context,  \* the lines update_context appended after the heading
    \* ---- FunctionCallBuilder.execute ----
    x_pc,                   \* position inside execute
    boost_mode_enabled,     \* static parameter
    kwargs,                 \* the arguments of the call
    llm_calls,              \* LLM requests made by the call
    function_dirs,          \* the function folders that exist
    function_files,         \* config.yaml and function.py of each folder
    category_made,          \* the category folder and its __init__.py exist
    generated_config_yaml,
    generated_function_py,
    x_returned              \* what execute returned

memVars == <<memory_path, pc, memory_json, todo, section_bound, cmd, outcome,
             turns, active, llm_output, returned, read_json, memory_content,
             settings_updates>>

\* the state of the settings of the instance
settingsVars == <<memory_content, settings_updates>>
boostVars == <<b_pc, max_correction_iterations, loop_i, current_content, best_content,
               min_problems, iterations_done, reflections, reflection_data>>

dsVars == <<ds_pc, max_iterations, iteration, all_results, iteration_summaries,
            constructed_context, calls, returned_urls, analyses, synthesis_input,
            parameters>>

shVars == <<sh_pc, produced, output_queue, output_lines, timed_out, sh_result>>

ftVars == <<ft_pc, folder_path, exclude_patterns, exclusion_preset,
            save_to_discussion_folder, ft_discussion_folder, pending, tree_lines,
            found_files, listed, files_read, copy_written, ft_result>>

gitVars == <<g_pc, g_calls, discussion_folder, dot_git, origin_added, repo_created,
             pushes, readme_written, g_result, rd_result>>

ctxVars == <<cx_pc, cx_plugin, cx_input, cx_list, cx_script, cx_returned>>

outVars == <<o_pc, cache_file, cache_duration, now, o_caller, date_arg, o_synced,
             o_events, agenda_context>>

buildVars == <<x_pc, boost_mode_enabled, kwargs, llm_calls, function_dirs,
               function_files, category_made, generated_config_yaml,
               generated_function_py, x_returned>>

vars == <<memVars, boostVars, dsVars, shVars, ftVars, gitVars, ctxVars, outVars,
          buildVars>>

nonMemVars   == <<boostVars, dsVars, shVars, ftVars, gitVars, ctxVars, outVars, buildVars>>
nonBoostVars == <<memVars, dsVars, shVars, ftVars, gitVars, ctxVars, outVars, buildVars>>
nonDsVars    == <<memVars, boostVars, shVars, ftVars, gitVars, ctxVars, outVars, buildVars>>
nonShVars    == <<memVars, boostVars, dsVars, ftVars, gitVars, ctxVars, outVars, buildVars>>
nonFtVars    == <<memVars, boostVars, dsVars, shVars, gitVars, ctxVars, outVars, buildVars>>
nonGitVars   == <<memVars, boostVars, dsVars, shVars, ftVars, ctxVars, outVars, buildVars>>
nonCtxVars   == <<memVars, boostVars, dsVars, shVars, ftVars, gitVars, outVars, buildVars>>
nonOutVars   == <<memVars, boostVars, dsVars, shVars, ftVars, gitVars, ctxVars, buildVars>>
nonBuildVars == <<memVars, boostVars, dsVars, shVars, ftVars, gitVars, ctxVars, outVars>>

(***************************************************************************)
(* Bounds of the model.                                                    *)
(***************************************************************************)
MaxCmds   == 1    \* commands per "add" / "update" / "remove" list of a batch
MaxTurns  == 2    \* calls of process_output / update_context per run
MaxLen    == 2    \* entries per list section (an "add" beyond it is not drawn)
MaxEntry  == 2    \* distinct entry ids and distinct contents the LLM uses
MaxIter     == 3  \* largest max_correction_iterations drawn
MaxProblems == 3  \* largest num_problems_detected the evaluator reports
MaxSearchIter == 3  \* largest max_iterations drawn for a deep search
MaxDepth      == 2  \* results per search call (the depth parameter)
MaxUrl        == 3  \* distinct URLs the stub search engine returns
MaxLines      == 3  \* lines the shell prints during a run
MaxLine       == 2  \* distinct lines, besides the prompt
MaxGitCalls   == 3  \* calls of GitHubRepoManager.execute / CreateReadme.execute
MaxContext    == 2  \* fragments in the list an update_context call receives
MaxDebaters   == 2  \* debaters selected, search items returned
MaxSettings   == 2  \* settings_updated calls per run
MaxMinutes    == 3  \* minutes the clock advances during a run
MaxDuration   == 2  \* largest cache_duration drawn

(***************************************************************************)
(* JSON values.  An entry is a dict with "id" and "c" (t = "obj"), a dict  *)
(* without "id" (t = "noid") or a JSON list (t = "list").  A document is   *)
(* unparseable text (t = "text"), absent (t = "none": generate_code gave   *)
(* no string), a JSON value that is no dict (t = "nonobj") or a dict       *)
(* (t = "obj") with the top-level keys `keys`.                             *)
(***************************************************************************)
ListKeys == {"i", "n", "k", "sys", "s"}

\* expected_keys = {"i", "b", "n", "k", "sys", "s"}
expected_keys == ListKeys \cup {"b"}

Entry(id, c) == [t |-> "obj", id |-> id, c |-> c]
NoIdEntry    == [t |-> "noid", id |-> 0, c |-> 1]
ListEntry    == [t |-> "list", id |-> 0, c |-> 0]

\* {"id":"bond_001","c":"Initial bond state","imp":5,"ts":0}; id 0 is "bond_001",
\* content 0 is "Initial bond state"
DefaultBond == Entry(0, 0)

EmptySections == [k \in ListKeys |-> <<>>]

Doc(keys, b, sec) == [t |-> "obj", keys |-> keys, b |-> b, sec |-> sec]
TextDoc   == [t |-> "text",   keys |-> {}, b |-> ListEntry, sec |-> EmptySections]
NoneDoc   == [t |-> "none",   keys |-> {}, b |-> ListEntry, sec |-> EmptySections]
NonObjDoc == [t |-> "nonobj", keys |-> {}, b |-> ListEntry, sec |-> EmptySections]

\* '{"i":[],"b":{"id":"bond_001",...},"n":[],"k":[],"sys":[],"s":[]}'
DefaultMemory == Doc(expected_keys, DefaultBond, EmptySections)

\* the documents drawn for the file found at construction and for the LLM's repair
NoBondDoc    == Doc(ListKeys, ListEntry, EmptySections)
NoNotesDoc   == Doc(expected_keys \ {"n"}, DefaultBond, EmptySections)
BondListDoc  == Doc(expected_keys, ListEntry, EmptySections)
OneEntryDoc  == Doc(expected_keys, Entry(1, 1),
                    [EmptySections EXCEPT !["i"] = <<Entry(1, 1)>>, !["n"] = <<Entry(1, 1)>>])

FileInputs   == {DefaultMemory, OneEntryDoc, TextDoc, NoNotesDoc, BondListDoc}
ExtraKeyDoc  == Doc(expected_keys \cup {"x"}, DefaultBond, EmptySections)
RepairInputs == {DefaultMemory, TextDoc, NoneDoc, NonObjDoc, NoBondDoc, BondListDoc,
                 ExtraKeyDoc}

EntryInputs == {Entry(i, c) : i \in 1..MaxEntry, c \in 1..MaxEntry}
                 \cup {NoIdEntry, ListEntry}

(***************************************************************************)
(* An update command: `obj` is FALSE for a command that is no JSON object; *)
(* `has` are the keys it has.                                              *)
(***************************************************************************)
Command(has, section, entry, id) ==
    [obj |-> TRUE, has |-> has, section |-> section, entry |-> entry, id |-> id]
NotAnObject == [obj |-> FALSE, has |-> {}, section |-> "", entry |-> ListEntry, id |-> 0]
NoCommand   == [obj |-> FALSE, has |-> {}, section |-> "-", entry |-> ListEntry, id |-> 0]

SectionInputs == {"i", "b", "zz"}

EntryCommands ==
    {Command({"section", "entry"}, s, e, 0) : s \in SectionInputs, e \in EntryInputs}
      \cup {Command({"entry"}, "", e, 0) : e \in {Entry(1, 1)}}
      \cup {Command({"section"}, s, ListEntry, 0) : s \in {"i", "b"}}
      \cup {NotAnObject}

RemoveCommands ==
    {Command({"section", "id"}, s, ListEntry, i) : s \in SectionInputs, i \in 1..MaxEntry}
      \cup {Command({"id"}, "", ListEntry, 1)}
      \cup {Command({"section"}, s, ListEntry, 0) : s \in {"i", "b"}}
      \cup {NotAnObject}

(***************************************************************************)
(* verify_and_fix_memory: the document it returns, the file it leaves and  *)
(* whether it raised, for the file content f and the LLM's repair output   *)
(* `fixed` (read only when f is corrupt).                                  *)
(***************************************************************************)
IsDict(e) == e.t \in {"obj", "noid"}

ValidStructure(f) == f.t = "obj" /\ expected_keys \subseteq f.keys

VerifyResult(path, file, ret) == [path |-> path, file |-> file, ret |-> ret]

verify_and_fix_memory(f, fixed) ==
    IF ValidStructure(f)
    THEN VerifyResult("valid", f, IF IsDict(f.b) THEN f ELSE [f EXCEPT !.b = DefaultBond])
    ELSE IF fixed.t = "none"       \* json.loads(None): TypeError, not caught here
    THEN VerifyResult("raised", f, NoneDoc)
    ELSE IF fixed.t = "text"       \* json.JSONDecodeError: the hardcoded default
    THEN VerifyResult("defaulted", f, DefaultMemory)
    ELSE VerifyResult("repaired", fixed, fixed)

(***************************************************************************)
(* One command of a batch applied to the local memory_json m.  The result  *)
(* is the memory after the try block, whether the block raised, and        *)
(* whether `section = cmd["section"]` was executed.                        *)
(***************************************************************************)
Result(m, raised, bound) == [mem |-> m, raised |-> raised, bound |-> bound]

HasSection(c) == c.obj /\ "section" \in c.has

\* memory_json[section] can be read: memory_json is a dict and has the key
Readable(m, s) == m.t = "obj" /\ s \in m.keys /\ s \in ListKeys

\* AddCmd that puts the entry in front of the section
AddCmd_Prepend(m, c) ==
    IF ~HasSection(c) THEN Result(m, TRUE, FALSE)
    ELSE IF "entry" \notin c.has THEN Result(m, TRUE, TRUE)
    ELSE IF c.section = "b" THEN Result(m, FALSE, TRUE)
    ELSE IF ~Readable(m, c.section) THEN Result(m, TRUE, TRUE)
    ELSE Result([m EXCEPT !.sec[c.section] = <<c.entry>> \o @], FALSE, TRUE)

AddCmd(m, c) ==
    IF ~HasSection(c) THEN Result(m, TRUE, FALSE)
    ELSE IF "entry" \notin c.has THEN Result(m, TRUE, TRUE)
    ELSE IF c.section = "b" THEN Result(m, FALSE, TRUE)
    ELSE IF ~Readable(m, c.section) THEN Result(m, TRUE, TRUE)
    ELSE Result([m EXCEPT !.sec[c.section] = Append(@, c.entry)], FALSE, TRUE)

\* index of the first entry the update loop stops at: one without a readable
\* "id" (existing["id"] raises) or one whose id matches; 0 when there is none
RECURSIVE FirstStop(_, _, _)
FirstStop(items, id, k) ==
    IF k > Len(items) THEN 0
    ELSE IF items[k].t # "obj" \/ items[k].id = id THEN k
    ELSE FirstStop(items, id, k + 1)

UpdateCmd(m, c) ==
    IF ~HasSection(c) THEN Result(m, TRUE, FALSE)
    ELSE IF "entry" \notin c.has THEN Result(m, TRUE, TRUE)
    ELSE IF c.section = "b"
    THEN IF m.t # "obj" THEN Result(m, TRUE, TRUE)
         ELSE Result([m EXCEPT !.b = c.entry, !.keys = @ \cup {"b"}], FALSE, TRUE)
    ELSE IF c.entry.t # "obj" THEN Result(m, TRUE, TRUE)      \* entry["id"]
    ELSE IF ~Readable(m, c.section) THEN Result(m, TRUE, TRUE)
    ELSE LET items == m.sec[c.section]
             k     == FirstStop(items, c.entry.id, 1)
         IN  IF k = 0 THEN Result(m, FALSE, TRUE)
             ELSE IF items[k].t # "obj" THEN Result(m, TRUE, TRUE)
             ELSE Result([m EXCEPT !.sec[c.section][k] = c.entry], FALSE, TRUE)

RECURSIVE Without(_, _)
Without(items, id) ==
    IF items = <<>> THEN <<>>
    ELSE IF Head(items).id # id THEN <<Head(items)>> \o Without(Tail(items), id)
    ELSE Without(Tail(items), id)

\* RemoveCmd without the guard of line 182: a "remove" on the bond deletes it
RemoveCmd_UnguardedBond(m, c) ==
    IF ~HasSection(c) THEN Result(m, TRUE, FALSE)
    ELSE IF c.section = "b" /\ m.t = "obj"
    THEN Result([m EXCEPT !.keys = @ \ {"b"}, !.b = ListEntry], FALSE, TRUE)
    ELSE IF "id" \notin c.has THEN Result(m, TRUE, TRUE)
    ELSE IF ~Readable(m, c.section) THEN Result(m, TRUE, TRUE)
    ELSE IF \E k \in 1..Len(m.sec[c.section]) : m.sec[c.section][k].t # "obj"
    THEN Result(m, TRUE, TRUE)
    ELSE Result([m EXCEPT !.sec[c.section] = Without(@, c.id)], FALSE, TRUE)

RemoveCmd(m, c) ==
    IF ~HasSection(c) THEN Result(m, TRUE, FALSE)
    ELSE IF c.section = "b" THEN Result(m, FALSE, TRUE)
    ELSE IF "id" \notin c.has THEN Result(m, TRUE, TRUE)
    ELSE IF ~Readable(m, c.section) THEN Result(m, TRUE, TRUE)
    ELSE IF \E k \in 1..Len(m.sec[c.section]) : m.sec[c.section][k].t # "obj"
    THEN Result(m, TRUE, TRUE)                                 \* e["id"] raises
    ELSE Result([m EXCEPT !.sec[c.section] = Without(@, c.id)], FALSE, TRUE)

(***************************************************************************)
(* The long-term memory machine.  An invocation p is one host session      *)
(* calling update_context and process_output of its plugin instance; all   *)
(* instances share the file ~/lollms_memory.json.                          *)
(***************************************************************************)
Procs == {1, 2}

NoTodo == [add |-> 0, update |-> 0, remove |-> 0]

\* the llm_output a process_output call is given; NoOutput while no call runs
LlmOutputs == {"answer a", "answer b"}
NoOutput   == "<no llm_output>"

\* line 198, after the try statement: return llm_output
return_value_NoneOnError(output, how) ==
    IF how \in {"raised", "parse_failed", "aborted"} THEN "None" ELSE output

return_value(output, how) == output

\* json.dump(memory_json, f) on the file opened with "w": the file holds the
\* dumped document and nothing of what it held
json_dump_Merge(file, document) ==
    IF file.t = "obj" /\ document.t = "obj"
    THEN [document EXCEPT !.sec = [k \in ListKeys |->
                                    IF document.sec[k] = <<>> THEN file.sec[k]
                                    ELSE document.sec[k]]]
    ELSE document

json_dump(file, document) == document

\* Path.write_text(text): the file holds the text
write_text(file, text) == text
Last(kind, c) == [kind |-> kind, c |-> c]

MemInit(files, running) ==
    /\ memory_path \in files
    /\ active = running
    /\ pc = [p \in Procs |-> "idle"]
    /\ memory_json = [p \in Procs |-> NoneDoc]
    /\ todo = [p \in Procs |-> NoTodo]
    /\ section_bound = [p \in Procs |-> FALSE]
    /\ cmd = [p \in Procs |-> Last("none", NoCommand)]
    /\ outcome = [p \in Procs |-> "none"]
    /\ turns = 0
    /\ llm_output = [p \in Procs |-> NoOutput]
    /\ returned = [p \in Procs |-> NoOutput]
    /\ read_json = [p \in Procs |-> NoneDoc]
    /\ memory_content = memory_path
    /\ settings_updates = 0

\* the repair output is read only when the file is corrupt
RepairDraws == IF ValidStructure(memory_path) THEN {DefaultMemory} ELSE RepairInputs

\* update_context: verify_and_fix_memory, then json.dumps(memory_json) is appended
\* to the context; on an exception nothing is appended
UpdateContext(p) ==
    /\ p \in active
    /\ pc[p] = "idle"
    /\ turns < MaxTurns
    /\ \E fixed \in RepairDraws :
         LET r == verify_and_fix_memory(memory_path, fixed)
         IN  /\ memory_path' = r.file
             /\ memory_json' = [memory_json EXCEPT ![p] = r.ret]
             /\ pc' = [pc EXCEPT ![p] = IF r.path = "raised" THEN "done" ELSE "context"]
             /\ outcome' = [outcome EXCEPT ![p] = r.path]
    /\ turns' = turns + 1
    /\ UNCHANGED <<todo, section_bound, cmd, active, llm_output, returned, read_json>>
    /\ UNCHANGED settingsVars
    /\ UNCHANGED nonMemVars

\* process_output, lines 113-114: memory_json = self.verify_and_fix_memory()
Load(p) ==
    /\ p \in active
    /\ pc[p] = "idle"
    /\ turns < MaxTurns
    /\ \E fixed \in RepairDraws :
         LET r == verify_and_fix_memory(memory_path, fixed)
         IN  /\ memory_path' = r.file
             /\ memory_json' = [memory_json EXCEPT ![p] = r.ret]
             /\ pc' = [pc EXCEPT ![p] = IF r.path = "raised" THEN "done" ELSE "loaded"]
             /\ outcome' = [outcome EXCEPT ![p] = r.path]
             /\ read_json' = [read_json EXCEPT ![p] = r.ret]
    /\ \E output \in LlmOutputs : llm_output' = [llm_output EXCEPT ![p] = output]
    /\ returned' = [returned EXCEPT ![p] = NoOutput]
    /\ turns' = turns + 1
    /\ UNCHANGED <<todo, section_bound, cmd, active>>
    /\ UNCHANGED settingsVars
    /\ UNCHANGED nonMemVars

\* lines 149-150: the LLM's update commands are requested and parsed; the lists
\* "add", "update" and "remove" have na, nu and nr commands
Request(p) ==
    /\ pc[p] = "loaded"
    /\ \/ /\ pc' = [pc EXCEPT ![p] = "done"]            \* json.loads raises
          /\ outcome' = [outcome EXCEPT ![p] = "parse_failed"]
          /\ UNCHANGED todo
       \/ \E na, nu, nr \in 0..MaxCmds :
            /\ todo' = [todo EXCEPT ![p] = [add |-> na, update |-> nu, remove |-> nr]]
            /\ pc' = [pc EXCEPT ![p] = "apply"]
            /\ UNCHANGED outcome
    /\ UNCHANGED <<memory_path, memory_json, section_bound, cmd, turns, active,
                   llm_output, returned, read_json>>
    /\ UNCHANGED settingsVars
    /\ UNCHANGED nonMemVars

\* the except clause of a command: f"... {section}: {e}" reads the local `section`;
\* when no command has bound it yet the handler itself raises and the exception
\* leaves the loop for the outer except of process_output (line 193)
Attempt(p, kind, c, r) ==
    LET escapes == r.raised /\ ~(section_bound[p] \/ r.bound)
    IN  /\ cmd' = [cmd EXCEPT ![p] = Last(kind, c)]
        /\ section_bound' = [section_bound EXCEPT ![p] = @ \/ r.bound]
        /\ memory_json' = [memory_json EXCEPT ![p] = r.mem]
        /\ todo' = [todo EXCEPT ![p][kind] = @ - 1]
        /\ pc' = [pc EXCEPT ![p] = IF escapes THEN "done" ELSE "apply"]
        /\ outcome' = [outcome EXCEPT ![p] = IF escapes THEN "aborted" ELSE @]
        /\ UNCHANGED <<memory_path, turns, active, llm_output, returned, read_json>>
        /\ UNCHANGED settingsVars
        /\ UNCHANGED nonMemVars

\* the model draws no "add" that would grow a section beyond MaxLen
Fits(m, c) ==
    (HasSection(c) /\ Readable(m, c.section)) => Len(m.sec[c.section]) < MaxLen

\* lines 153-161, for a command of the set `commands`
AddOf(p, commands) ==
    /\ pc[p] = "apply"
    /\ todo[p].add > 0
    /\ \E c \in commands :
         /\ Fits(memory_json[p], c)
         /\ Attempt(p, "add", c, AddCmd(memory_json[p], c))

Add(p) == AddOf(p, EntryCommands)

\* lines 163-177, for a command of the set `commands`
UpdateOf(p, commands) ==
    /\ pc[p] = "apply"
    /\ todo[p].add = 0 /\ todo[p].update > 0
    /\ \E c \in commands : Attempt(p, "update", c, UpdateCmd(memory_json[p], c))

Update(p) == UpdateOf(p, EntryCommands)

\* lines 179-187, for a command of the set `commands`
RemoveOf(p, commands) ==
    /\ pc[p] = "apply"
    /\ todo[p].add = 0 /\ todo[p].update = 0 /\ todo[p].remove > 0
    /\ \E c \in commands : Attempt(p, "remove", c, RemoveCmd(memory_json[p], c))

Remove(p) == RemoveOf(p, RemoveCommands)

\* lines 189-191: json.dump(memory_json, f)
Persist(p) ==
    /\ pc[p] = "apply"
    /\ todo[p] = NoTodo
    /\ memory_path' = json_dump(memory_path, memory_json[p])
    /\ pc' = [pc EXCEPT ![p] = "done"]
    /\ outcome' = [outcome EXCEPT ![p] = "persisted"]
    /\ UNCHANGED <<memory_json, todo, section_bound, cmd, turns, active,
                   llm_output, returned, read_json>>
    /\ UNCHANGED settingsVars
    /\ UNCHANGED nonMemVars

\* line 198: return llm_output (update_context: return constructed_context,
\* line 108); the locals of the call are gone
Return(p) ==
    /\ pc[p] \in {"done", "context"}
    /\ pc' = [pc EXCEPT ![p] = "idle"]
    /\ memory_json' = [memory_json EXCEPT ![p] = NoneDoc]
    /\ todo' = [todo EXCEPT ![p] = NoTodo]
    /\ section_bound' = [section_bound EXCEPT ![p] = FALSE]
    /\ cmd' = [cmd EXCEPT ![p] = Last("none", NoCommand)]
    /\ returned' = [returned EXCEPT ![p] =
                       IF llm_output[p] = NoOutput THEN @
                       ELSE return_value(llm_output[p], outcome[p])]
    /\ llm_output' = [llm_output EXCEPT ![p] = NoOutput]
    /\ read_json' = [read_json EXCEPT ![p] = NoneDoc]
    /\ UNCHANGED <<memory_path, outcome, turns, active>>
    /\ UNCHANGED settingsVars
    /\ UNCHANGED nonMemVars

MemNext ==
    \/ \E p \in Procs : UpdateContext(p)
    \/ \E p \in Procs : Load(p)
    \/ \E p \in Procs : Request(p)
    \/ \E p \in Procs : Add(p)
    \/ \E p \in Procs : Update(p)
    \/ \E p \in Procs : Remove(p)
    \/ \E p \in Procs : Persist(p)
    \/ \E p \in Procs : Return(p)

\* lines 39-41, settings_updated: the host calls it between two turns when a
\* setting of the plugin was saved; memory_content is what the constructor
\* read from the file (line 36) or wrote to it (line 34)
SettingsUpdated ==
    /\ \A p \in Procs : pc[p] = "idle"
    /\ settings_updates < MaxSettings
    /\ settings_updates' = settings_updates + 1
    /\ memory_path' = write_text(memory_path, memory_content)
    /\ UNCHANGED <<pc, memory_json, todo, section_bound, cmd, outcome, turns, active,
                   llm_output, returned, read_json, memory_content>>
    /\ UNCHANGED nonMemVars

\* Two sessions at once.  Their commands are well formed: entries with an id
\* for section "i" or the bond, removals by id from section "i".
RaceEntryCommands ==
    {Command({"section", "entry"}, "i", Entry(i, 1), 0) : i \in 1..MaxEntry}
      \cup {Command({"section", "entry"}, "b", Entry(1, 1), 0)}

RaceRemoveCommands == {Command({"section", "id"}, "i", ListEntry, 1)}

RaceAdd(p)    == AddOf(p, RaceEntryCommands)
RaceUpdate(p) == UpdateOf(p, RaceEntryCommands)
RaceRemove(p) == RemoveOf(p, RaceRemoveCommands)

RaceNext ==
    \/ \E p \in Procs : Load(p)
    \/ \E p \in Procs : Request(p)
    \/ \E p \in Procs : RaceAdd(p)
    \/ \E p \in Procs : RaceUpdate(p)
    \/ \E p \in Procs : RaceRemove(p)
    \/ \E p \in Procs : Persist(p)
    \/ \E p \in Procs : Return(p)

\* one session whose settings are saved between its turns
SettingsNext ==
    \/ \E p \in Procs : Load(p)
    \/ \E p \in Procs : Request(p)
    \/ \E p \in Procs : RaceAdd(p)
    \/ \E p \in Procs : RaceUpdate(p)
    \/ \E p \in Procs : RaceRemove(p)
    \/ \E p \in Procs : Persist(p)
    \/ \E p \in Procs : Return(p)
    \/ SettingsUpdated

\* no session runs: the state of the memory while another plugin is checked
MemIdle == MemInit({DefaultMemory}, {})


(***************************************************************************)
(* Boost mode: FunctionCallBuilder._run_generation_loop.  A content is     *)
(* named by its attempt number: 1 is the initial generation, k + 1 the     *)
(* k-th correction.                                                        *)
(***************************************************************************)
\* float('inf'): above every count the evaluator reports
Inf == MaxProblems + 1

\* reflection outputs: "malformed" (no JSON, an empty JSON value, or a dict, list
\* or string without num_problems_detected), "scalar" (a JSON number or true:
\* json.loads accepts it, `in` does not), a count, or a num_problems_detected
\* that is no number ("notnumber")
ReflectionInputs ==
    {[kind |-> "malformed", n |-> 0], [kind |-> "scalar", n |-> 0],
     [kind |-> "notnumber", n |-> 0]}
        \cup {[kind |-> "count", n |-> n] : n \in 0..MaxProblems}

\* line 646: reflection_data = None
NoReflection == [kind |-> "none", n |-> 0]

BoostInit ==
    /\ b_pc = "start"
    /\ max_correction_iterations \in 0..MaxIter
    /\ loop_i = 0
    /\ current_content = 0
    /\ best_content = 0
    /\ min_problems = Inf
    /\ iterations_done = 0
    /\ reflections = <<>>
    /\ reflection_data = NoReflection

BoostIdle ==
    /\ b_pc = "off"
    /\ max_correction_iterations = 0
    /\ loop_i = 0
    /\ current_content = 0
    /\ best_content = 0
    /\ min_problems = Inf
    /\ iterations_done = 0
    /\ reflections = <<>>
    /\ reflection_data = NoReflection

\* lines 616-631: the initial generation; an empty answer raises ValueError
Generate ==
    /\ b_pc = "start"
    /\ \/ /\ b_pc' = "loop"
          /\ current_content' = 1
          /\ best_content' = 1
       \/ /\ b_pc' = "raised"
          /\ UNCHANGED <<current_content, best_content>>
    /\ UNCHANGED <<max_correction_iterations, loop_i, min_problems, iterations_done,
                   reflections, reflection_data>>
    /\ UNCHANGED nonBoostVars

\* lines 669-671 with best_content = current_content at every evaluation: the
\* last attempt wins
Select_LastAttempt(best, minp, cur, n) == [best |-> cur, min |-> n]

\* lines 669-671: keep the attempt with fewer problems than any before
Select(best, minp, cur, n) ==
    IF n < minp THEN [best |-> cur, min |-> n] ELSE [best |-> best, min |-> minp]

\* line 633: for i in range(self.max_correction_iterations)
InRange(k, maxi) == k < maxi

\* lines 673-679 without the test of line 673
Break_LastIterationOnly(n, k, maxi) == k = maxi - 1

\* lines 673-679: no problem left, or the last iteration
Break(n, k, maxi) == n = 0 \/ k = maxi - 1

\* lines 634-679: one reflection and what the loop does with it
Reflect ==
    /\ b_pc = "loop"
    /\ InRange(loop_i, max_correction_iterations)
    /\ iterations_done' = loop_i + 1
    /\ \E r \in ReflectionInputs :
         /\ reflection_data' = r
         /\ IF r.kind = "malformed"
            THEN \* lines 656-660
                 /\ min_problems' = IF loop_i = 0 THEN 0 ELSE min_problems
                 /\ b_pc' = "returned"
                 /\ UNCHANGED <<best_content, reflections>>
            ELSE IF r.kind = "scalar"
            THEN \* line 656: "num_problems_detected" not in 3 raises TypeError
                 /\ b_pc' = "raised"
                 /\ UNCHANGED <<best_content, min_problems, reflections>>
            ELSE IF r.kind = "notnumber"
            THEN \* line 669: num_problems < min_problems raises TypeError
                 /\ b_pc' = "raised"
                 /\ UNCHANGED <<best_content, min_problems, reflections>>
            ELSE LET sel == Select(best_content, min_problems, current_content, r.n)
                 IN  /\ reflections' = Append(reflections, [content |-> current_content, n |-> r.n])
                     /\ best_content' = sel.best
                     /\ min_problems' = sel.min
                     /\ b_pc' = IF Break(r.n, loop_i, max_correction_iterations)
                                THEN "returned" ELSE "correct"
    /\ UNCHANGED <<max_correction_iterations, loop_i, current_content>>
    /\ UNCHANGED nonBoostVars

\* lines 681-701: the correction; an empty answer ends the loop
Correct ==
    /\ b_pc = "correct"
    /\ \/ /\ current_content' = current_content + 1
          /\ loop_i' = loop_i + 1
          /\ b_pc' = "loop"
       \/ /\ b_pc' = "returned"
          /\ UNCHANGED <<current_content, loop_i>>
    /\ UNCHANGED <<max_correction_iterations, best_content, min_problems,
                   iterations_done, reflections, reflection_data>>
    /\ UNCHANGED nonBoostVars

\* line 633 with the range exhausted, then line 703
LoopExit ==
    /\ b_pc = "loop"
    /\ ~InRange(loop_i, max_correction_iterations)
    /\ b_pc' = "returned"
    /\ UNCHANGED <<max_correction_iterations, loop_i, current_content, best_content,
                   min_problems, iterations_done, reflections, reflection_data>>
    /\ UNCHANGED nonBoostVars

BoostNext == Generate \/ Reflect \/ Correct \/ LoopExit

(***************************************************************************)
(* Deep search: DeepSearch.update_context.  A search result is its URL and *)
(* its title; the title stands for everything else the engine returned and *)
(* is the number of the iteration that returned it.                        *)
(***************************************************************************)
NoCalls == [search |-> 0, analysis |-> 0, synthesis |-> 0, log |-> 0]

SearchResult(u, t) == [url |-> u, title |-> t]

\* the result lists a search call may return (an engine error gives the empty list)
RECURSIVE UrlLists(_)
UrlLists(n) ==
    IF n = 0 THEN {<<>>}
    ELSE UrlLists(n - 1) \cup
         {Append(l, u) : l \in {x \in UrlLists(n - 1) : Len(x) = n - 1}, u \in 1..MaxUrl}

Titled(urls, t) == [k \in 1..Len(urls) |-> SearchResult(urls[k], t)]

\* before extract_parameters ran
NoParameters == [query |-> FALSE, engine |-> "-", ints |-> TRUE]

DSInit ==
    /\ ds_pc = "start"
    /\ max_iterations = 0
    /\ iteration = 0
    /\ all_results = <<>>
    /\ iteration_summaries = <<>>
    /\ constructed_context = <<>>
    /\ calls = NoCalls
    /\ returned_urls = {}
    /\ analyses = <<>>
    /\ synthesis_input = <<>>
    /\ parameters = NoParameters

DSIdle ==
    /\ ds_pc = "off"
    /\ max_iterations = 0
    /\ iteration = 0
    /\ all_results = <<>>
    /\ iteration_summaries = <<>>
    /\ constructed_context = <<>>
    /\ calls = NoCalls
    /\ returned_urls = {}
    /\ analyses = <<>>
    /\ synthesis_input = <<>>
    /\ parameters = NoParameters

\* the parameters of a call: is there a query (parameter or last user message),
\* the engine ("free", "paid" with its key, "nokey", "unknown"), can the numeric
\* parameters be converted by int()
\* without a query there is no user message and so no parameter that int()
\* could reject (extract_parameters, lines 577-591)
ParamInputs ==
    {prm \in [query : BOOLEAN, engine : {"free", "paid", "nokey", "unknown"},
              ints : BOOLEAN] : prm.query \/ prm.ints}

Validated(ok, context) == [ok |-> ok, context |-> context]

\* lines 115-151 without the tests of lines 141 and 147
validate_QueryOnly(prm) ==
    IF ~prm.ints THEN Validated(FALSE, <<"ERROR: An error occurred">>)
    ELSE IF ~prm.query THEN Validated(FALSE, <<"ERROR: No search query provided">>)
    ELSE Validated(TRUE, <<"[Deep searching]">>)

\* lines 115-151: what the validation appends to the context and whether the
\* search goes on
validate(prm) ==
    IF ~prm.ints                 \* int() raises ValueError: line 271
    THEN Validated(FALSE, <<"ERROR: An error occurred">>)
    ELSE IF ~prm.query
    THEN Validated(FALSE, <<"ERROR: No search query provided">>)
    ELSE IF prm.engine = "unknown"
    THEN Validated(FALSE, <<"[Deep searching]", "ERROR: Invalid search engine">>)
    ELSE IF prm.engine = "nokey"
    THEN Validated(FALSE, <<"[Deep searching]", "ERROR: requires an API key">>)
    ELSE Validated(TRUE, <<"[Deep searching]">>)

\* lines 115-151: parameter extraction and validation
DSStart ==
    /\ ds_pc = "start"
    /\ \E prm \in ParamInputs, m \in 0..MaxSearchIter :
         LET v == validate(prm)
         IN  /\ parameters' = prm
             /\ constructed_context' = v.context
             /\ ds_pc' = IF v.ok THEN "search" ELSE "done"
             /\ max_iterations' = IF v.ok THEN m ELSE max_iterations
    /\ UNCHANGED <<iteration, all_results, iteration_summaries, calls, returned_urls,
                   analyses, synthesis_input>>
    /\ UNCHANGED nonDsVars

\* the loop of line 158 without its bound
range_Unbounded(k, n) == TRUE

\* line 158: for iteration in range(max_iterations)
range(k, n) == k < n

\* lines 158-168: one search call; no result ends the loop
DSSearch ==
    /\ ds_pc = "search"
    /\ range(iteration, max_iterations)
    /\ \E urls \in UrlLists(MaxDepth) :
         /\ calls' = [calls EXCEPT !.search = @ + 1]
         /\ returned_urls' = returned_urls \cup {urls[k] : k \in 1..Len(urls)}
         /\ IF urls = <<>>
            THEN ds_pc' = "synthesis" /\ UNCHANGED all_results
            ELSE /\ ds_pc' = "analysis"
                 /\ all_results' = all_results \o Titled(urls, iteration + 1)
    /\ UNCHANGED <<max_iterations, iteration, iteration_summaries, constructed_context,
                   analyses, synthesis_input>>
    /\ UNCHANGED parameters
    /\ UNCHANGED nonDsVars

\* line 158 with the range exhausted
DSLoopExit ==
    /\ ds_pc = "search"
    /\ ~range(iteration, max_iterations)
    /\ ds_pc' = "synthesis"
    /\ UNCHANGED <<max_iterations, iteration, all_results, iteration_summaries,
                   constructed_context, calls, returned_urls, analyses, synthesis_input>>
    /\ UNCHANGED parameters
    /\ UNCHANGED nonDsVars

\* what the analysis text holds after "SUFFICIENT:"; "-" is an analysis
\* without that line
VerdictInputs == {"yes", "Yes", "No", "[Yes]", "-"}

\* line 206: re.search(r"SUFFICIENT:\s*(\w+)", analysis): the word matched, ""
\* when there is no match
sufficient_match(verdict) == IF verdict \in {"yes", "Yes", "No"} THEN verdict ELSE ""

\* str.lower
str_lower(word) == CASE word = "Yes" -> "yes" [] word = "No" -> "no" [] OTHER -> word

\* line 211 without .lower()
sufficient_CaseSensitive(verdict) == sufficient_match(verdict) = "yes"

\* line 211: sufficient = group(1).strip().lower() == "yes" if there is a match
sufficient(verdict) == str_lower(sufficient_match(verdict)) = "yes"

\* lines 199-225: the LLM analyses the iteration; an exception of fastgen goes
\* to the handler of line 271
DSAnalyse ==
    /\ ds_pc = "analysis"
    /\ calls' = [calls EXCEPT !.analysis = @ + 1]
    /\ \/ /\ ds_pc' = "done"
          /\ constructed_context' = Append(constructed_context, "ERROR: An error occurred")
          /\ UNCHANGED <<iteration, iteration_summaries, analyses>>
       \/ \E verdict \in VerdictInputs :
            /\ analyses' = Append(analyses, verdict)
            /\ iteration_summaries' = Append(iteration_summaries, iteration + 1)
            /\ IF sufficient(verdict) \/ iteration = max_iterations - 1
               THEN ds_pc' = "synthesis" /\ UNCHANGED iteration
               ELSE ds_pc' = "search" /\ iteration' = iteration + 1
            /\ UNCHANGED constructed_context
    /\ UNCHANGED <<max_iterations, all_results, returned_urls, synthesis_input>>
    /\ UNCHANGED parameters
    /\ UNCHANGED nonDsVars

RECURSIVE HasUrl(_, _)
HasUrl(list, u) ==
    IF list = <<>> THEN FALSE ELSE Head(list).url = u \/ HasUrl(Tail(list), u)

\* lines 259-262 comparing each result with the one before it only
RECURSIVE unique_sources_Adjacent(_)
unique_sources_Adjacent(results) ==
    IF Len(results) <= 1 THEN results
    ELSE LET front == SubSeq(results, 1, Len(results) - 1)
             r     == results[Len(results)]
         IN  IF results[Len(results) - 1].url = r.url
             THEN unique_sources_Adjacent(front)
             ELSE Append(unique_sources_Adjacent(front), r)

\* lines 259-262: the dict unique_sources, in insertion order: a URL keeps the
\* title of its first result
RECURSIVE unique_sources(_)
unique_sources(results) ==
    IF results = <<>> THEN <<>>
    ELSE LET front == unique_sources(SubSeq(results, 1, Len(results) - 1))
             r     == results[Len(results)]
         IN  IF HasUrl(front, r.url) THEN front ELSE Append(front, r)

\* lines 228-269: synthesis, log file, results and sources appended
DSSynthesise ==
    /\ ds_pc = "synthesis"
    /\ ds_pc' = "done"
    /\ synthesis_input' = iteration_summaries
    /\ \/ /\ calls' = [calls EXCEPT !.synthesis = @ + 1]
          /\ constructed_context' = Append(constructed_context, "ERROR: An error occurred")
       \/ /\ calls' = [calls EXCEPT !.synthesis = @ + 1, !.log = @ + 1]
          /\ constructed_context' = constructed_context \o
                <<"[Deep Search Results]", "synthesis", "[Based on sources]", "Sources consulted">>
    /\ UNCHANGED <<max_iterations, iteration, all_results, iteration_summaries,
                   returned_urls, analyses>>
    /\ UNCHANGED parameters
    /\ UNCHANGED nonDsVars

\* the "Sources consulted" text of a finished run: lines 258-267
SourcesConsulted == unique_sources(all_results)

DSNext == DSStart \/ DSSearch \/ DSLoopExit \/ DSAnalyse \/ DSSynthesise

(***************************************************************************)
(* PersistentShell and ExecuteBashCommand.execute.  The reader thread      *)
(* (_enqueue_output) puts the lines of the shell's stdout on output_queue  *)
(* while execute takes them off.  Line 0 is a prompt line (">" or "$").    *)
(***************************************************************************)
Prompt == 0
Lines  == 0..MaxLine

ShInit ==
    /\ sh_pc = "start"
    /\ produced = <<>>
    /\ output_queue = <<>>
    /\ output_lines = <<>>
    /\ timed_out = FALSE
    /\ sh_result = "none"

ShIdle ==
    /\ sh_pc = "off"
    /\ produced = <<>>
    /\ output_queue = <<>>
    /\ output_lines = <<>>
    /\ timed_out = FALSE
    /\ sh_result = "none"

\* lines 119-123: except subprocess.TimeoutExpired / except Exception
Handled(exc) == exc \in {"TimeoutExpired", "OSError", "Exception"}

\* what execute gives its caller when `exc` is raised inside its try block
Raise(exc) == IF Handled(exc) THEN "error string" ELSE "exception"

\* line 112: shell = PersistentShell(); Popen may raise OSError
ShSpawn ==
    /\ sh_pc = "start"
    /\ \/ sh_pc' = "spawned" /\ UNCHANGED sh_result
       \/ sh_pc' = "done" /\ sh_result' = Raise("OSError")
    /\ UNCHANGED <<produced, output_queue, output_lines, timed_out>>
    /\ UNCHANGED nonShVars

\* lines 48-51: the command is written to stdin (BrokenPipeError is an OSError)
ShWrite ==
    /\ sh_pc = "spawned"
    /\ \/ sh_pc' = "reading" /\ UNCHANGED sh_result
       \/ sh_pc' = "done" /\ sh_result' = Raise("OSError")
    /\ UNCHANGED <<produced, output_queue, output_lines, timed_out>>
    /\ UNCHANGED nonShVars

\* lines 37-39: the reader thread puts the next line of stdout on the queue
ReaderEnqueue ==
    /\ sh_pc \in {"spawned", "reading", "joined", "done"}
    /\ Len(produced) < MaxLines
    /\ \E line \in Lines :
         /\ produced' = Append(produced, line)
         /\ output_queue' = Append(output_queue, line)
    /\ UNCHANGED <<sh_pc, output_lines, timed_out, sh_result>>
    /\ UNCHANGED nonShVars

\* a queue whose get takes the line put last
queue_get_Newest(q) == [line |-> q[Len(q)], rest |-> SubSeq(q, 1, Len(q) - 1)]

\* queue.Queue.get: first in, first out
queue_get(q) == [line |-> Head(q), rest |-> Tail(q)]

\* lines 55-59: a line arrived within the timeout
ShGet ==
    /\ sh_pc = "reading"
    /\ output_queue # <<>>
    /\ LET g == queue_get(output_queue)
       IN  /\ output_queue' = g.rest
           /\ output_lines' = Append(output_lines, g.line)
           /\ sh_pc' = IF g.line = Prompt THEN "joined" ELSE "reading"
    /\ UNCHANGED <<produced, timed_out, sh_result>>
    /\ UNCHANGED nonShVars

\* lines 60-61: no line for `timeout` seconds: queue.Empty
ShTimeout ==
    /\ sh_pc = "reading"
    /\ output_queue = <<>>
    /\ timed_out' = TRUE
    /\ sh_pc' = "joined"
    /\ UNCHANGED <<produced, output_queue, output_lines, sh_result>>
    /\ UNCHANGED nonShVars

\* lines 62 and 115-118: ''.join(output_lines) is returned, the LLM comments it
ShFastGen ==
    /\ sh_pc = "joined"
    /\ sh_pc' = "done"
    /\ sh_result' \in {"Execution output", Raise("Exception")}
    /\ UNCHANGED <<produced, output_queue, output_lines, timed_out>>
    /\ UNCHANGED nonShVars

ShNext == ShSpawn \/ ShWrite \/ ReaderEnqueue \/ ShGet \/ ShTimeout \/ ShFastGen

(***************************************************************************)
(* FolderStructureToText.execute.  The file system is one fixed tree; an   *)
(* item is a node of it.  A name is its text, its lower-case text and its  *)
(* last extension (Path.suffix).                                           *)
(***************************************************************************)
Name(full, lower, suffix) == [full |-> full, lower |-> lower, suffix |-> suffix]

Item(kind, name, parent) == [kind |-> kind, name |-> name, parent |-> parent]

\* /proj as it is on disk; node 0 is /proj itself
Tree ==
    <<Item("dir",  Name("src", "src", ""), 0),
      Item("file", Name("main.py", "main.py", ".py"), 1),
      Item("dir",  Name("build", "build", ""), 0),
      Item("file", Name("out.py", "out.py", ".py"), 3),
      Item("file", Name("README.md", "readme.md", ".md"), 0),
      Item("file", Name("lib.pyc", "lib.pyc", ".pyc"), 1),
      Item("dir",  Name("docs", "docs", ""), 1),
      Item("file", Name("guide.md", "guide.md", ".md"), 7),
      Item("file", Name("data.dat", "data.dat", ".dat"), 0)>>

Root  == 0
Items == 1..Len(Tree)

is_dir(n)  == n = Root \/ (n \in Items /\ Tree[n].kind = "dir")
is_file(n) == n \in Items /\ Tree[n].kind = "file"

\* the lower-case names of the tree in the order of Python's string comparison
NameOrder == <<"build", "data.dat", "docs", "guide.md", "lib.pyc", "main.py",
               "out.py", "readme.md", "src">>

Rank(n) == CHOOSE k \in 1..Len(NameOrder) : NameOrder[k] = Tree[n].name.lower

\* a wildcard pattern: "*" followed by `text` when star, `text` itself when not,
\* and a trailing "/" when slash
Pattern(star, text, slash) == [star |-> star, text |-> text, slash |-> slash]

\* lines 38-42 (the names that matter for the tree)
DEFAULT_EXCLUDED_FOLDERS == {".git", "__pycache__", "node_modules", "dist", "build"}

\* lines 43-52
DEFAULT_EXCLUDED_EXTENSIONS == {".pyc", ".pyo", ".png", ".zip", ".db"}

\* lines 53-70
ALLOWED_TEXT_EXTENSIONS == {".txt", ".md", ".py", ".json", ".sh"}

\* lines 80-90: the "Python Project" preset (the patterns that matter for the tree)
PRESET_EXCLUSIONS ==
    [p \in {"Python Project"} |->
        {Pattern(TRUE, ".pyc", FALSE), Pattern(FALSE, "__pycache__", TRUE),
         Pattern(FALSE, "build", TRUE), Pattern(FALSE, "dist", TRUE),
         Pattern(TRUE, ".db", FALSE)}]

PresetInputs == {"None/Defaults", "Custom", "Python Project"}

\* the custom fields of the static configuration
custom_static_exclude_folders    == {"docs"}
custom_static_exclude_extensions == {".dat"}
custom_static_exclude_patterns   == {Pattern(FALSE, "src", TRUE)}

DynamicPatterns == {Pattern(TRUE, ".md", FALSE), Pattern(FALSE, "docs", FALSE)}

\* _parse_static_exclusions: the static sets for the selected preset
parse_static_exclusions(preset) ==
    IF preset = "Custom"
    THEN [folders  |-> custom_static_exclude_folders,
          exts     |-> custom_static_exclude_extensions,
          patterns |-> custom_static_exclude_patterns]
    ELSE IF preset \in DOMAIN PRESET_EXCLUSIONS
    THEN [folders |-> {}, exts |-> {}, patterns |-> PRESET_EXCLUSIONS[preset]]
    ELSE [folders |-> {}, exts |-> {}, patterns |-> {}]

\* fnmatch.fnmatchcase(name, pattern); no name of the tree holds a "/"
fnmatchcase(name, p) ==
    /\ ~p.slash
    /\ IF p.star THEN name.suffix = p.text ELSE name.full = p.text

\* pattern.rstrip('/')
rstrip(p) == [p EXCEPT !.slash = FALSE]

\* _is_excluded(item, dynamic_exclude_patterns) under the static sets st
is_excluded(n, st, dyn) ==
    LET name == Tree[n].name
        suffix_lower == IF is_file(n) THEN name.suffix ELSE ""
    IN  \/ is_dir(n) /\ (name.full \in DEFAULT_EXCLUDED_FOLDERS
                         \/ name.lower \in DEFAULT_EXCLUDED_FOLDERS)
        \/ is_file(n) /\ suffix_lower \in DEFAULT_EXCLUDED_EXTENSIONS
        \/ is_dir(n) /\ name.lower \in st.folders
        \/ is_file(n) /\ suffix_lower \in st.exts
        \/ \E p \in st.patterns :
              \/ is_dir(n) /\ fnmatchcase(name, rstrip(p))
              \/ fnmatchcase(name, p)
        \/ \E p \in dyn : fnmatchcase(name, p)

\* _is_text_file
is_text_file(n) == Tree[n].name.suffix \in ALLOWED_TEXT_EXTENSIONS

\* sort key (x.is_file(), x.name.lower())
Before(a, b) ==
    \/ is_dir(a) /\ is_file(b)
    \/ (is_file(a) <=> is_file(b)) /\ Rank(a) < Rank(b)

RECURSIVE Sorted(_)
Sorted(S) ==
    IF S = {} THEN <<>>
    ELSE LET first == CHOOSE a \in S : \A b \in S \ {a} : Before(a, b)
         IN  <<first>> \o Sorted(S \ {first})

\* items_of that keeps the excluded directories (and filters the files only)
items_of_FilesOnly(folder, st, dyn) ==
    Sorted({n \in Items : Tree[n].parent = folder
                            /\ ~(is_file(n) /\ is_excluded(n, st, dyn))})

\* lines 394-398: the items of folder.iterdir() that are not excluded, sorted
items_of(folder, st, dyn) ==
    Sorted({n \in Items : Tree[n].parent = folder /\ ~is_excluded(n, st, dyn)})

Absent    == "<absent>"
NoneValue == "<None>"

FolderPathInputs == {Absent, NoneValue, "", "/nonexistent", "/proj/README.md", "/proj"}

\* kwargs.get("folder_path", "")
kwargs_get(value) == IF value = Absent THEN "" ELSE value

\* a test `folder_path_str is None`
falsy_IsNone(value) == value = NoneValue

\* line 506: `not folder_path_str`
falsy(value) == value \in {"", NoneValue}

\* Path(folder_path_str).resolve(): the empty path is the working directory,
\* which is a directory the host can list (here /proj)
resolve(path) ==
    IF path = NoneValue THEN [raises |-> TRUE, exists |-> FALSE, node |-> Root]
    ELSE IF path \in {"", "/proj"} THEN [raises |-> FALSE, exists |-> TRUE, node |-> Root]
    ELSE IF path = "/proj/README.md" THEN [raises |-> FALSE, exists |-> TRUE, node |-> 5]
    ELSE [raises |-> FALSE, exists |-> FALSE, node |-> Root]

ErrorLine == 0 - 1      \* "[Error listing directory: ...]"

FtInit ==
    /\ ft_pc = "start"
    /\ folder_path \in FolderPathInputs
    /\ exclude_patterns \in SUBSET DynamicPatterns
    /\ exclusion_preset \in PresetInputs
    /\ save_to_discussion_folder \in BOOLEAN
    /\ ft_discussion_folder \in {"none", "ok"}
    /\ pending = <<>>
    /\ tree_lines = <<>>
    /\ found_files = <<>>
    /\ listed = {}
    /\ files_read = {}
    /\ copy_written = FALSE
    /\ ft_result = "none"

FtIdle ==
    /\ ft_pc = "off"
    /\ folder_path = Absent
    /\ exclude_patterns = {}
    /\ exclusion_preset = "None/Defaults"
    /\ save_to_discussion_folder = FALSE
    /\ ft_discussion_folder = "none"
    /\ pending = <<>>
    /\ tree_lines = <<>>
    /\ found_files = <<>>
    /\ listed = {}
    /\ files_read = {}
    /\ copy_written = FALSE
    /\ ft_result = "none"

\* lines 498-508: the parameters are read and folder_path is validated
FtValidate ==
    /\ ft_pc = "start"
    /\ IF falsy(kwargs_get(folder_path))
       THEN ft_pc' = "done" /\ ft_result' = "Error: No folder path provided."
       ELSE ft_pc' = "resolve" /\ UNCHANGED ft_result
    /\ UNCHANGED <<folder_path, exclude_patterns, exclusion_preset,
                   save_to_discussion_folder, ft_discussion_folder, pending,
                   tree_lines, found_files, listed, files_read, copy_written>>
    /\ UNCHANGED nonFtVars

\* lines 394-405: folder.iterdir() succeeds, or raises PermissionError / OSError
\* and the tree gets an error line
ListDir(folder, rest) ==
    \/ /\ listed' = listed \cup {folder}
       /\ pending' = items_of(folder, parse_static_exclusions(exclusion_preset),
                              exclude_patterns) \o rest
       /\ UNCHANGED tree_lines
    \/ /\ tree_lines' = Append(tree_lines, ErrorLine)
       /\ pending' = rest
       /\ UNCHANGED listed

\* lines 517-534: the path is resolved and checked, the root folder is listed
FtResolve ==
    /\ ft_pc = "resolve"
    /\ LET folder == resolve(kwargs_get(folder_path))
       IN  IF folder.raises
           THEN /\ ft_pc' = "done"
                /\ ft_result' = "Error: An unexpected error occurred"
                /\ UNCHANGED <<pending, tree_lines, listed>>
           ELSE IF ~folder.exists
           THEN /\ ft_pc' = "done"
                /\ ft_result' = "Error: Folder not found"
                /\ UNCHANGED <<pending, tree_lines, listed>>
           ELSE IF ~is_dir(folder.node)
           THEN /\ ft_pc' = "done"
                /\ ft_result' = "Error: The provided path is not a valid directory"
                /\ UNCHANGED <<pending, tree_lines, listed>>
           ELSE /\ ft_pc' = "walk"
                /\ UNCHANGED ft_result
                /\ ListDir(folder.node, <<>>)
    /\ UNCHANGED <<folder_path, exclude_patterns, exclusion_preset,
                   save_to_discussion_folder, ft_discussion_folder, found_files,
                   files_read, copy_written>>
    /\ UNCHANGED nonFtVars

\* lines 407-424: the next item of the walk; a directory is listed in its turn
FtVisit ==
    /\ ft_pc = "walk"
    /\ pending # <<>>
    /\ LET item == Head(pending)
       IN  IF is_dir(item)
           THEN \/ /\ listed' = listed \cup {item}
                   /\ pending' = items_of(item, parse_static_exclusions(exclusion_preset),
                                          exclude_patterns) \o Tail(pending)
                   /\ tree_lines' = Append(tree_lines, item)
                   /\ UNCHANGED found_files
                \/ /\ tree_lines' = tree_lines \o <<item, ErrorLine>>
                   /\ pending' = Tail(pending)
                   /\ UNCHANGED <<listed, found_files>>
           ELSE /\ tree_lines' = Append(tree_lines, item)
                /\ found_files' = IF is_text_file(item) THEN Append(found_files, item)
                                  ELSE found_files
                /\ pending' = Tail(pending)
                /\ UNCHANGED listed
    /\ UNCHANGED <<ft_pc, folder_path, exclude_patterns, exclusion_preset,
                   save_to_discussion_folder, ft_discussion_folder, files_read,
                   copy_written, ft_result>>
    /\ UNCHANGED nonFtVars

\* lines 545-547 and 428-471: every collected file is read
FtContents ==
    /\ ft_pc = "walk"
    /\ pending = <<>>
    /\ files_read' = {found_files[k] : k \in 1..Len(found_files)}
    /\ ft_pc' = "save"
    /\ UNCHANGED <<folder_path, exclude_patterns, exclusion_preset,
                   save_to_discussion_folder, ft_discussion_folder, pending,
                   tree_lines, found_files, listed, copy_written, ft_result>>
    /\ UNCHANGED nonFtVars

\* lines 556-578: the copy for the discussion folder (a failing write is logged),
\* then the Markdown is returned
FtSave ==
    /\ ft_pc = "save"
    /\ IF save_to_discussion_folder /\ ft_discussion_folder = "ok"
       THEN copy_written' \in BOOLEAN
       ELSE UNCHANGED copy_written
    /\ ft_pc' = "done"
    /\ ft_result' = "Folder Structure"
    /\ UNCHANGED <<folder_path, exclude_patterns, exclusion_preset,
                   save_to_discussion_folder, ft_discussion_folder, pending,
                   tree_lines, found_files, listed, files_read>>
    /\ UNCHANGED nonFtVars

FtNext == FtValidate \/ FtResolve \/ FtVisit \/ FtContents \/ FtSave

(***************************************************************************)
(* GitHubRepoManager.execute and CreateReadme.execute, called one after    *)
(* the other on the discussion folder of one client.  Neither method has a *)
(* try statement: what a call raises reaches the caller.                   *)
(***************************************************************************)
DiscussionFolders == {"none", "missing", "ok"}

GitInit ==
    /\ g_pc = "idle"
    /\ g_calls = 0
    /\ discussion_folder \in DiscussionFolders
    /\ dot_git = FALSE
    /\ origin_added = FALSE
    /\ repo_created = FALSE
    /\ pushes = {}
    /\ readme_written = FALSE
    /\ g_result = "none"
    /\ rd_result = "none"

GitIdle ==
    /\ g_pc = "off"
    /\ g_calls = 0
    /\ discussion_folder = "none"
    /\ dot_git = FALSE
    /\ origin_added = FALSE
    /\ repo_created = FALSE
    /\ pushes = {}
    /\ readme_written = FALSE
    /\ g_result = "none"
    /\ rd_result = "none"

\* subprocess.run(..., cwd=discussion_folder, check=True): the exit codes the
\* command can end with; a folder that does not exist lets none succeed
run(folder) == IF folder = "ok" THEN {TRUE, FALSE} ELSE {FALSE}

\* manage_github_repo lines 49-65: credentials, discussion folder, is_repo
GitExecute ==
    /\ g_pc = "idle"
    /\ g_calls < MaxGitCalls
    /\ g_calls' = g_calls + 1
    /\ \E credentials \in BOOLEAN :
         IF ~credentials
         THEN g_pc' = "idle" /\ g_result' = "GitHub token or user profile name is missing"
         ELSE IF discussion_folder = "none"
         THEN g_pc' = "idle" /\ g_result' = "exception"
         ELSE /\ g_pc' = IF dot_git THEN "add" ELSE "init"
              /\ g_result' = "running"
    /\ UNCHANGED <<discussion_folder, dot_git, origin_added, repo_created, pushes,
                   readme_written, rd_result>>
    /\ UNCHANGED nonGitVars

\* line 68: git init
GitInitRepo ==
    /\ g_pc = "init"
    /\ \E ok \in run(discussion_folder) :
         IF ok
         THEN g_pc' = "post" /\ dot_git' = TRUE /\ UNCHANGED g_result
         ELSE g_pc' = "idle" /\ g_result' = "exception" /\ UNCHANGED dot_git
    /\ UNCHANGED <<g_calls, discussion_folder, origin_added, repo_created, pushes,
                   readme_written, rd_result>>
    /\ UNCHANGED nonGitVars

\* lines 70-82: POST /user/repos; a status other than 201 ends the call
GitPost ==
    /\ g_pc = "post"
    /\ \E response \in {"201", "422", "ConnectionError"} :
         /\ repo_created' = (repo_created \/ response = "201")
         /\ g_pc' = IF response = "201" THEN "remote" ELSE "idle"
         /\ g_result' = CASE response = "201" -> g_result
                          [] response = "422" -> "Failed to create GitHub repository"
                          [] OTHER -> "exception"
    /\ UNCHANGED <<g_calls, discussion_folder, dot_git, origin_added, pushes,
                   readme_written, rd_result>>
    /\ UNCHANGED nonGitVars

\* line 85: git remote add origin
GitRemoteAdd ==
    /\ g_pc = "remote"
    /\ \E ok \in run(discussion_folder) :
         IF ok
         THEN g_pc' = "add" /\ origin_added' = TRUE /\ UNCHANGED g_result
         ELSE g_pc' = "idle" /\ g_result' = "exception" /\ UNCHANGED origin_added
    /\ UNCHANGED <<g_calls, discussion_folder, dot_git, repo_created, pushes,
                   readme_written, rd_result>>
    /\ UNCHANGED nonGitVars

\* line 88: git add .
GitAdd ==
    /\ g_pc = "add"
    /\ \E ok \in run(discussion_folder) :
         IF ok
         THEN g_pc' = "commit" /\ UNCHANGED g_result
         ELSE g_pc' = "idle" /\ g_result' = "exception"
    /\ UNCHANGED <<g_calls, discussion_folder, dot_git, origin_added, repo_created,
                   pushes, readme_written, rd_result>>
    /\ UNCHANGED nonGitVars

\* line 91: git commit (exits with 1 when there is nothing to commit)
GitCommit ==
    /\ g_pc = "commit"
    /\ \E ok \in run(discussion_folder) :
         IF ok
         THEN g_pc' = "push" /\ UNCHANGED g_result
         ELSE g_pc' = "idle" /\ g_result' = "exception"
    /\ UNCHANGED <<g_calls, discussion_folder, dot_git, origin_added, repo_created,
                   pushes, readme_written, rd_result>>
    /\ UNCHANGED nonGitVars

\* lines 94-96: git push -u origin master; it cannot succeed without the remote
GitPush ==
    /\ g_pc = "push"
    /\ pushes' = pushes \cup {origin_added}
    /\ g_pc' = "idle"
    /\ \E ok \in run(discussion_folder) :
         g_result' = IF ok /\ origin_added THEN "Successfully pushed changes"
                     ELSE "exception"
    /\ UNCHANGED <<g_calls, discussion_folder, dot_git, origin_added, repo_created,
                   readme_written, rd_result>>
    /\ UNCHANGED nonGitVars

\* create_readme lines 17-42: README.md is written into the discussion folder
ReadmeExecute ==
    /\ g_pc = "idle"
    /\ g_calls < MaxGitCalls
    /\ g_calls' = g_calls + 1
    /\ \E ok \in run(discussion_folder) :
         IF ok
         THEN readme_written' = TRUE /\ rd_result' = "README.md file created successfully"
         ELSE rd_result' = "exception" /\ UNCHANGED readme_written
    /\ UNCHANGED <<g_pc, discussion_folder, dot_git, origin_added, repo_created,
                   pushes, g_result>>
    /\ UNCHANGED nonGitVars

GitNext ==
    \/ GitExecute \/ GitInitRepo \/ GitPost \/ GitRemoteAdd \/ GitAdd \/ GitCommit
    \/ GitPush \/ ReadmeExecute

(***************************************************************************)
(* update_context of the plugins.  A call receives the list                *)
(* constructed_context, mutates it in place and returns it (or raises).    *)
(* What a call does to the list is a script: the list operations of one    *)
(* path through the method, in order, and how the path ends.               *)
(***************************************************************************)
Fragments == {"conditioning", "documentation"}

\* the lists a call may receive: what the plugins before it accumulated
RECURSIVE ContextInputs(_)
ContextInputs(n) ==
    IF n = 0 THEN {<<>>}
    ELSE ContextInputs(n - 1) \cup
         {Append(l, f) : l \in {x \in ContextInputs(n - 1) : Len(x) = n - 1},
                         f \in Fragments}

\* constructed_context.append(text)
append(text) == [op |-> "append", text |-> text, chars |-> <<>>]

\* constructed_context += string (the list is extended by the characters)
iadd(chars) == [op |-> "iadd", text |-> "", chars |-> chars]

Script(ops, raises) == [ops |-> ops, raises |-> raises]

\* the first characters of "instruction: Wrap the debate\n" + ai_full_header
InstructionChars == <<"i", "n", "s">>

RECURSIVE Repeat(_, _)
Repeat(op, n) == IF n = 0 THEN <<>> ELSE Append(Repeat(op, n - 1), op)

Plugins ==
    {"long_term_memory", "deep_search", "engage_in_debate_mode", "get_time",
     "outlook_agenda_context", "youtube_transcript_summarizer",
     "add_internet_data_to_context", "execute_bash_command", "folder_structure_to_text"}

\* the paths through update_context of each plugin
Scripts(plugin) ==
    CASE plugin = "long_term_memory" ->
            \* lines 84-108: the memory is appended; any exception is logged
            {Script(<<append("Long Term Memory")>>, FALSE), Script(<<>>, FALSE)}
      [] plugin = "deep_search" ->
            \* lines 115-274
            {Script(<<append("ERROR: An error occurred")>>, FALSE),
             Script(<<append("ERROR: No search query provided")>>, FALSE),
             Script(<<append("[Deep searching]"), append("ERROR: Invalid search engine")>>, FALSE),
             Script(<<append("[Deep searching]"), append("ERROR: requires an API key")>>, FALSE),
             Script(<<append("[Deep searching]"), append("ERROR: An error occurred")>>, FALSE),
             Script(<<append("[Deep searching]"), append("[Deep Search Results]"),
                      append("synthesis"), append("[Based on sources]"),
                      append("Sources consulted")>>, FALSE)}
      [] plugin = "engage_in_debate_mode" ->
            \* lines 37-53: json.loads or collective_dict[debater] may raise; one
            \* append per debater, then the += of line 52
            {Script(Repeat(append("debater output"), n), TRUE) : n \in 0..MaxDebaters}
            \cup {Script(Repeat(append("debater output"), n) \o <<iadd(InstructionChars)>>,
                         FALSE) : n \in 0..MaxDebaters}
      [] plugin = "get_time" ->
            {Script(<<append("Current date/time")>>, FALSE)}
      [] plugin = "outlook_agenda_context" ->
            \* lines 120-141: an event without one of its keys raises KeyError
            {Script(<<append("Outlook Calendar")>>, FALSE), Script(<<>>, TRUE)}
      [] plugin = "youtube_transcript_summarizer" ->
            \* lines 52-88
            {Script(<<>>, FALSE),
             Script(<<append("Error: Could not find a valid YouTube video ID")>>, FALSE),
             Script(<<append("I have retrieved the following transcript"),
                      append("transcript"), append("Please analyze the transcript")>>, FALSE),
             Script(<<append("Error: Could not retrieve the transcript")>>, FALSE),
             Script(<<append("An error occurred")>>, FALSE)}
      [] plugin = "add_internet_data_to_context" ->
            \* lines 38-55: only HttpError is handled
            {Script(Repeat(append("Internet Data"), n), FALSE) : n \in 0..MaxDebaters}
            \cup {Script(<<append("Internet Search Error")>>, FALSE), Script(<<>>, TRUE)}
      [] plugin = "execute_bash_command" ->
            \* lines 87-98
            {Script(Repeat(append("platform advice"), n), FALSE) : n \in {3, 4}}
      [] OTHER ->
            \* folder_structure_to_text, manage_github_repo, create_readme
            {Script(<<>>, FALSE)}

\* list.insert(0, text) in the place of list.append / +=
apply_AtFront(list, o) ==
    IF o.op = "append" THEN <<o.text>> \o list ELSE o.chars \o list

\* list.append(text) and list += chars
apply(list, o) ==
    IF o.op = "append" THEN Append(list, o.text) ELSE list \o o.chars

NotReturned == <<"<no list returned>">>

CtxInit ==
    /\ cx_pc = "idle"
    /\ cx_plugin = "none"
    /\ cx_input \in ContextInputs(MaxContext)
    /\ cx_list = cx_input
    /\ cx_script = Script(<<>>, FALSE)
    /\ cx_returned = NotReturned

CtxIdle ==
    /\ cx_pc = "off"
    /\ cx_plugin = "none"
    /\ cx_input = <<>>
    /\ cx_list = <<>>
    /\ cx_script = Script(<<>>, FALSE)
    /\ cx_returned = NotReturned

\* the orchestrator calls update_context of a plugin
CtxCall(plugin) ==
    /\ cx_pc = "idle"
    /\ cx_plugin' = plugin
    /\ cx_script' \in Scripts(plugin)
    /\ cx_pc' = "running"
    /\ UNCHANGED <<cx_input, cx_list, cx_returned>>
    /\ UNCHANGED nonCtxVars

\* the next list operation of the path
CtxApply ==
    /\ cx_pc = "running"
    /\ cx_script.ops # <<>>
    /\ cx_list' = apply(cx_list, Head(cx_script.ops))
    /\ cx_script' = [cx_script EXCEPT !.ops = Tail(@)]
    /\ UNCHANGED <<cx_pc, cx_plugin, cx_input, cx_returned>>
    /\ UNCHANGED nonCtxVars

\* return constructed_context
CtxReturn ==
    /\ cx_pc = "running"
    /\ cx_script.ops = <<>>
    /\ ~cx_script.raises
    /\ cx_returned' = cx_list
    /\ cx_pc' = "done"
    /\ UNCHANGED <<cx_plugin, cx_input, cx_list, cx_script>>
    /\ UNCHANGED nonCtxVars

\* an exception no except clause of the method handles
CtxRaise ==
    /\ cx_pc = "running"
    /\ cx_script.ops = <<>>
    /\ cx_script.raises
    /\ cx_pc' = "raised"
    /\ UNCHANGED <<cx_plugin, cx_input, cx_list, cx_script, cx_returned>>
    /\ UNCHANGED nonCtxVars

CtxNext == (\E plugin \in Plugins : CtxCall(plugin)) \/ CtxApply \/ CtxReturn \/ CtxRaise

(***************************************************************************)
(* OutlookAgendaContext: the cache file outlook_cache.json, needs_sync,    *)
(* sync_with_outlook, get_events_for_date and update_context.  Time is     *)
(* counted in minutes; a day is the key 'YYYY-MM-DD' it has in the cache.  *)
(***************************************************************************)
Days  == {1, 2}
Today == 1

\* the lists of events a day can have
EventLists == {<<>>, <<"meeting">>, <<"meeting", "lunch">>}

\* outlook_cache.json: missing, unreadable (no JSON, no 'last_sync', no ISO
\* date), or a JSON object with 'last_sync' and, unless has_events is FALSE,
\* 'events'
Cache(kind, last_sync, has_events, events) ==
    [kind |-> kind, last_sync |-> last_sync, has_events |-> has_events,
     events |-> events]

NoEvents == [day \in Days |-> <<>>]

CacheInputs ==
    {Cache("missing", 0, FALSE, NoEvents), Cache("unreadable", 0, FALSE, NoEvents),
     Cache("ok", 0, FALSE, NoEvents)}
      \cup {Cache("ok", 0, TRUE, ev) : ev \in [Days -> {<<>>, <<"meeting">>}]}

\* a date as the caller passes it: the string 'YYYY-MM-DD' or a datetime object
DateStr(day)  == [type |-> "str", day |-> day]
DateTime(day) == [type |-> "datetime", day |-> day]
NoDate        == [type |-> "none", day |-> Today]

\* needs_sync with >= in line 51
needs_sync_AtLeast(cache, t, duration) ==
    IF cache.kind # "ok" THEN TRUE ELSE t - cache.last_sync >= duration

\* lines 43-55
needs_sync(cache, t, duration) ==
    IF cache.kind = "missing" THEN TRUE               \* line 44
    ELSE IF cache.kind = "unreadable" THEN TRUE       \* line 53
    ELSE t - cache.last_sync > duration               \* line 51

\* line 116: cache_data['events'].get(date_str, []); the keys are strings
dict_get(cache, date) ==
    IF date.type = "str" THEN cache.events[date.day] ELSE <<>>

\* lines 114-118: the cache is read; whatever fails gives []
read_events(cache, date) ==
    IF cache.kind = "ok" /\ cache.has_events THEN dict_get(cache, date) ELSE <<>>

OutInit ==
    /\ o_pc = "idle"
    /\ cache_file \in CacheInputs
    /\ cache_duration \in 1..MaxDuration
    /\ now = 0
    /\ o_caller = "none"
    /\ date_arg = NoDate
    /\ o_synced = FALSE
    /\ o_events = <<>>
    /\ agenda_context = <<>>

OutIdle ==
    /\ o_pc = "off"
    /\ cache_file = Cache("missing", 0, FALSE, NoEvents)
    /\ cache_duration = 1
    /\ now = 0
    /\ o_caller = "none"
    /\ date_arg = NoDate
    /\ o_synced = FALSE
    /\ o_events = <<>>
    /\ agenda_context = <<>>

\* a minute passes between two calls
OutTick ==
    /\ o_pc = "idle"
    /\ now < MaxMinutes
    /\ now' = now + 1
    /\ UNCHANGED <<o_pc, cache_file, cache_duration, o_caller, date_arg, o_synced,
                   o_events, agenda_context>>
    /\ UNCHANGED nonOutVars

\* lines 120-125: update_context passes date = datetime.now()
OutUpdateContext ==
    /\ o_pc = "idle"
    /\ o_pc' = "check"
    /\ o_caller' = "update_context"
    /\ date_arg' = DateTime(Today)
    /\ o_synced' = FALSE
    /\ o_events' = <<>>
    /\ agenda_context' = <<>>
    /\ UNCHANGED <<cache_file, cache_duration, now>>
    /\ UNCHANGED nonOutVars

\* get_events_for_date(date_str) called with the string of a day
OutGetEvents ==
    /\ o_pc = "idle"
    /\ o_pc' = "check"
    /\ o_caller' = "get_events_for_date"
    /\ \E day \in Days : date_arg' = DateStr(day)
    /\ o_synced' = FALSE
    /\ o_events' = <<>>
    /\ agenda_context' = <<>>
    /\ UNCHANGED <<cache_file, cache_duration, now>>
    /\ UNCHANGED nonOutVars

\* line 111: if self.needs_sync()
OutNeedsSync ==
    /\ o_pc = "check"
    /\ o_pc' = IF needs_sync(cache_file, now, cache_duration) THEN "sync" ELSE "read"
    /\ UNCHANGED <<cache_file, cache_duration, now, o_caller, date_arg, o_synced,
                   o_events, agenda_context>>
    /\ UNCHANGED nonOutVars

\* lines 57-107: Outlook is asked; on success the cache is rewritten with the
\* appointments and last_sync = now, on an exception it is left as it is
OutSync ==
    /\ o_pc = "sync"
    /\ o_synced' = TRUE
    /\ \/ \E appointments \in [Days -> EventLists] :
            cache_file' = Cache("ok", now, TRUE, appointments)
       \/ UNCHANGED cache_file
    /\ o_pc' = "read"
    /\ UNCHANGED <<cache_duration, now, o_caller, date_arg, o_events, agenda_context>>
    /\ UNCHANGED nonOutVars

\* lines 114-118, and for update_context lines 128-142
OutRead ==
    /\ o_pc = "read"
    /\ o_events' = read_events(cache_file, date_arg)
    /\ agenda_context' =
         IF o_caller # "update_context" THEN agenda_context
         ELSE IF o_events' # <<>> THEN o_events'
         ELSE <<"No events scheduled for this date.">>
    /\ o_pc' = "idle"
    /\ UNCHANGED <<cache_file, cache_duration, now, o_caller, date_arg, o_synced>>
    /\ UNCHANGED nonOutVars

OutNext ==
    \/ OutTick \/ OutUpdateContext \/ OutGetEvents \/ OutNeedsSync \/ OutSync
    \/ OutRead

(***************************************************************************)
(* FunctionCallBuilder.execute: the checks of the arguments, the target    *)
(* directory <custom_function_calls_path>/<category>/<name>, the two       *)
(* generations and the saving of config.yaml and function.py.  The         *)
(* category is the default one; a function path is the name of its folder. *)
(***************************************************************************)
\* new_function_name as the caller gives it; "" stands for a missing one
NameInputs == {"", "fn_a", "Fn A", "fn_b", "fn-c"}

\* new_function_type: absent from kwargs, a string, or None (JSON null)
TypeInputs == {"absent", "CLASSIC", "classic", "CONTEXT_UPDATE", "PLUGIN", "None"}

KwargsInputs ==
    [new_function_name : NameInputs, new_function_description : BOOLEAN,
     new_function_core_logic : BOOLEAN, new_function_type : TypeInputs]

NoKwargs ==
    [new_function_name |-> "", new_function_description |-> FALSE,
     new_function_core_logic |-> FALSE, new_function_type |-> "absent"]

\* line 812: new_fn_name_orig.lower().replace(" ", "_")
safe_fn_name(name) == IF name = "Fn A" THEN "fn_a" ELSE name

\* line 792: kwargs.get("new_function_type", "CLASSIC").upper()
upper(type) ==
    IF type \in {"absent", "classic"} THEN "CLASSIC" ELSE type

\* line 816: re.match(r'^[a-z0-9_]+$', safe_fn_name)
snake_case(name) == name \in {"fn_a", "fn_b"}

FunctionPaths == {"fn_a", "fn_b"}

\* the two files of a function folder: absent, written by an earlier build,
\* or written by this run
NoFiles  == [config |-> "none", function |-> "none"]
OldFiles == [config |-> "old", function |-> "old"]

\* lines 790-806: .upper() of a None raises AttributeError outside any try;
\* then the three required arguments, then the type
check_kwargs(kw) ==
    IF kw.new_function_type = "None" THEN "raised"                  \* line 792
    ELSE IF ~(kw.new_function_name # "" /\ kw.new_function_description
                /\ kw.new_function_core_logic)
    THEN "error"                                                    \* lines 798-801
    ELSE IF upper(kw.new_function_type) \notin {"CLASSIC", "CONTEXT_UPDATE"}
    THEN "error"                                                    \* lines 803-806
    ELSE "ok"

\* function_path.exists() answering False for every path
path_exists_Never(dirs, path) == FALSE

\* line 830: function_path.exists()
path_exists(dirs, path) == path \in dirs

BuildInit ==
    /\ x_pc = "idle"
    /\ boost_mode_enabled \in BOOLEAN
    /\ kwargs = NoKwargs
    /\ llm_calls = 0
    /\ function_dirs \in SUBSET FunctionPaths
    /\ function_files \in [FunctionPaths -> {NoFiles, OldFiles}]
    /\ \A p \in FunctionPaths : p \notin function_dirs => function_files[p] = NoFiles
    /\ category_made \in BOOLEAN
    /\ function_dirs # {} => category_made
    /\ generated_config_yaml = ""
    /\ generated_function_py = ""
    /\ x_returned = "none"

BuildIdle ==
    /\ x_pc = "off"
    /\ boost_mode_enabled = FALSE
    /\ kwargs = NoKwargs
    /\ llm_calls = 0
    /\ function_dirs = {}
    /\ function_files = [p \in FunctionPaths |-> NoFiles]
    /\ category_made = FALSE
    /\ generated_config_yaml = ""
    /\ generated_function_py = ""
    /\ x_returned = "none"

fsVars == <<function_dirs, function_files, category_made>>

\* lines 783-806: the arguments are read and checked
BuildExecute ==
    /\ x_pc = "idle"
    /\ \E kw \in KwargsInputs :
         /\ kwargs' = kw
         /\ x_returned' = IF check_kwargs(kw) = "ok" THEN "none" ELSE check_kwargs(kw)
         /\ x_pc' = IF check_kwargs(kw) = "ok" THEN "resolve" ELSE "idle"
    /\ llm_calls' = 0
    /\ generated_config_yaml' = ""
    /\ generated_function_py' = ""
    /\ UNCHANGED <<boost_mode_enabled, fsVars>>
    /\ UNCHANGED nonBuildVars

\* lines 808-834: in boost mode the LLM chooses the type; then the name and
\* the target directory are checked
BuildResolve ==
    /\ x_pc = "resolve"
    /\ llm_calls' = IF boost_mode_enabled THEN llm_calls + 1 ELSE llm_calls
    /\ IF ~snake_case(safe_fn_name(kwargs.new_function_name))
       THEN x_returned' = "error" /\ x_pc' = "idle"                  \* lines 816-819
       ELSE IF path_exists(function_dirs, safe_fn_name(kwargs.new_function_name))
       THEN x_returned' = "error" /\ x_pc' = "idle"                  \* lines 830-834
       ELSE x_returned' = "none" /\ x_pc' = "yaml"
    /\ UNCHANGED <<boost_mode_enabled, kwargs, fsVars, generated_config_yaml,
                   generated_function_py>>
    /\ UNCHANGED nonBuildVars

\* lines 852-873: config.yaml is generated, by _run_generation_loop or by one
\* generate_code; a failure raises and line 938 returns the error
BuildGenerateYaml ==
    /\ x_pc = "yaml"
    /\ llm_calls' = llm_calls + 1
    /\ \/ /\ generated_config_yaml' = "new"
          /\ x_pc' = "python"
          /\ x_returned' = "none"
       \/ /\ generated_config_yaml' = ""
          /\ x_pc' = "idle"
          /\ x_returned' = "error"
    /\ UNCHANGED <<boost_mode_enabled, kwargs, fsVars, generated_function_py>>
    /\ UNCHANGED nonBuildVars

\* lines 876-896: function.py is generated
BuildGeneratePython ==
    /\ x_pc = "python"
    /\ llm_calls' = llm_calls + 1
    /\ \/ /\ generated_function_py' = "new"
          /\ x_pc' = "save"
          /\ x_returned' = "none"
       \/ /\ generated_function_py' = ""
          /\ x_pc' = "idle"
          /\ x_returned' = "error"
    /\ UNCHANGED <<boost_mode_enabled, kwargs, fsVars, generated_config_yaml>>
    /\ UNCHANGED nonBuildVars

\* lines 898-931: the folders are made and the two files written
BuildSave ==
    /\ x_pc = "save"
    /\ LET path == safe_fn_name(kwargs.new_function_name) IN
         /\ category_made' = TRUE
         /\ function_dirs' = function_dirs \cup {path}
         /\ function_files' =
              [function_files EXCEPT ![path] =
                 [config |-> generated_config_yaml,
                  function |-> generated_function_py]]
    /\ x_pc' = "idle"
    /\ x_returned' = "success"
    /\ UNCHANGED <<boost_mode_enabled, kwargs, llm_calls, generated_config_yaml,
                   generated_function_py>>
    /\ UNCHANGED nonBuildVars

BuildNext ==
    \/ BuildExecute \/ BuildResolve \/ BuildGenerateYaml \/ BuildGeneratePython
    \/ BuildSave

(***************************************************************************)
(* Properties of the long-term memory machine.                             *)
(***************************************************************************)
\* a document with exactly the six required keys and a singular bond object
StructurallyValid(d) == d.t = "obj" /\ d.keys = expected_keys /\ IsDict(d.b)

\* the document has a bond and the bond is no dict
BondNotObject(d) == d.t = "obj" /\ "b" \in d.keys /\ ~IsDict(d.b)

\* C1: whenever verify_and_fix_memory found the file malformed, the document it
\* returns is structurally valid (six keys, singular bond object) or is the
\* fixed empty-schema default.
C1_RepairNeverInvalid ==
    \A p \in Procs :
        (pc[p] \in {"loaded", "context"} /\ outcome[p] \in {"repaired", "defaulted"})
            => (StructurallyValid(memory_json[p]) \/ memory_json[p] = DefaultMemory)

\* C3: a step of the remove loop whose command has section "b" (with any id, or
\* none) changes nothing in memory_json and does not leave the loop.
BondRemoveStep(p) ==
    /\ pc[p] = "apply"
    /\ todo'[p].remove < todo[p].remove
    /\ HasSection(cmd'[p].c)
    /\ cmd'[p].c.section = "b"

C3_RemoveOnBondIsNoOp ==
    [][\A p \in Procs :
          BondRemoveStep(p) => (memory_json'[p] = memory_json[p] /\ pc'[p] = "apply")]_vars

\* C3 witness: a remove command on the bond was attempted on a memory that has a
\* bond other than the default and a non-empty section.
C3_Witness ==
    \E p \in Procs :
        /\ pc[p] = "apply"
        /\ cmd[p].kind = "remove"
        /\ HasSection(cmd[p].c) /\ cmd[p].c.section = "b" /\ "id" \in cmd[p].c.has
        /\ StructurallyValid(memory_json[p])
        /\ memory_json[p].b # DefaultBond
        /\ memory_json[p].sec["i"] # <<>>

\* C4: the bond is a single object, never a list, in every document that
\* process_output persisted and in every document update_context exposed.
C4_BondAlwaysObject ==
    \A p \in Procs :
        /\ (pc[p] = "done" /\ outcome[p] = "persisted") => ~BondNotObject(memory_path)
        /\ pc[p] = "context" => ~BondNotObject(memory_json[p])

\* C5: a batch in which a command was attempted always ends with the memory
\* persisted: no command, however malformed, ends the batch early.
C5_MalformedCommandKeepsBatch ==
    \A p \in Procs :
        (pc[p] = "done" /\ cmd[p].kind # "none") => outcome[p] = "persisted"

\* a step of the "add", "update" or "remove" loop of invocation p: the command
\* it attempted is cmd'[p].c, the memory before it memory_json[p]
LoopStep(p, kind) == pc[p] = "apply" /\ todo'[p][kind] < todo[p][kind]

\* the command is a JSON object with the keys `keys` and names a list section
\* that the memory has
OnListSection(m, c, keys) ==
    /\ c.obj /\ keys \subseteq c.has
    /\ c.section \in ListKeys
    /\ m.t = "obj" /\ c.section \in m.keys

\* the entry has the id `id`
IdIs(e, id) == e.t = "obj" /\ e.id = id

\* all sections but s, the bond and the keys are the same in old and new
OthersUnchanged(old, new, s) ==
    /\ new.t = old.t /\ new.keys = old.keys /\ new.b = old.b
    /\ \A t \in ListKeys \ {s} : new.sec[t] = old.sec[t]

\* C15: an "add" command for a list section appends its entry as the last
\* element of that section; the entries the section had, all other sections and
\* the bond stay as they were.
C15_AddAppends ==
    [][\A p \in Procs :
          (LoopStep(p, "add")
             /\ OnListSection(memory_json[p], cmd'[p].c, {"section", "entry"}))
          => LET s   == cmd'[p].c.section
                 old == memory_json[p]
                 new == memory_json'[p]
             IN  /\ Len(new.sec[s]) = Len(old.sec[s]) + 1
                 /\ new.sec[s][Len(new.sec[s])] = cmd'[p].c.entry
                 /\ \A k \in 1..Len(old.sec[s]) : new.sec[s][k] = old.sec[s][k]
                 /\ OthersUnchanged(old, new, s)]_vars

\* C15 witness: an "add" was attempted on a section that had an entry; the
\* section now ends with the command's entry, which differs from the first one,
\* while another section is not empty.
C15_Witness ==
    \E p \in Procs :
        /\ pc[p] = "apply"
        /\ cmd[p].kind = "add"
        /\ OnListSection(memory_json[p], cmd[p].c, {"section", "entry"})
        /\ Len(memory_json[p].sec[cmd[p].c.section]) = 2
        /\ memory_json[p].sec[cmd[p].c.section][2] = cmd[p].c.entry
        /\ memory_json[p].sec[cmd[p].c.section][1] # cmd[p].c.entry
        /\ \E t \in ListKeys \ {cmd[p].c.section} : memory_json[p].sec[t] # <<>>

\* C16: an "update" command for a list section replaces the entry whose id is
\* the id of the command's entry by the command's entry, keeps length and order
\* of the section, and changes nothing when no entry has that id; an "update"
\* command for section "b" makes the command's entry the bond.
C16_UpdateReplaces ==
    [][\A p \in Procs :
          LET c   == cmd'[p].c
              s   == c.section
              old == memory_json[p]
              new == memory_json'[p]
          IN  /\ (LoopStep(p, "update") /\ OnListSection(old, c, {"section", "entry"}))
                 => LET matches == {k \in 1..Len(old.sec[s]) :
                                      c.entry.t = "obj" /\ IdIs(old.sec[s][k], c.entry.id)}
                    IN  /\ Len(new.sec[s]) = Len(old.sec[s])
                        /\ matches = {} => new.sec[s] = old.sec[s]
                        /\ matches # {} =>
                             \E k \in matches :
                                 new.sec[s] = [old.sec[s] EXCEPT ![k] = c.entry]
                        /\ OthersUnchanged(old, new, s)
              /\ (LoopStep(p, "update") /\ c.obj /\ {"section", "entry"} \subseteq c.has
                    /\ s = "b" /\ old.t = "obj")
                 => (new.b = c.entry /\ new.sec = old.sec)]_vars

\* C17: a "remove" command for a list section removes every entry of the section
\* whose id is the command's id and keeps the other entries in their order; the
\* other sections stay as they were.
C17_RemoveFilters ==
    [][\A p \in Procs :
          LET c   == cmd'[p].c
              s   == c.section
              old == memory_json[p]
              new == memory_json'[p]
              kept(e) == ~IdIs(e, c.id)
          IN  (LoopStep(p, "remove") /\ OnListSection(old, c, {"section", "id"}))
              => /\ new.sec[s] = SelectSeq(old.sec[s], kept)
                 /\ OthersUnchanged(old, new, s)]_vars

\* C18: process_output requests the update commands only after the memory was
\* loaded and validated, writes nothing while commands are being applied, and
\* every batch of commands ends with one write of the resulting memory, made
\* when no command of the batch is left unattempted.
C18_LoadRequestApplyPersist ==
    [][\A p \in Procs :
          /\ (pc[p] = "loaded" /\ pc'[p] # "loaded")
                => (outcome[p] \in {"valid", "repaired", "defaulted"}
                      /\ memory_json[p] # NoneDoc)
          /\ (pc[p] = "apply" /\ pc'[p] = "apply") => memory_path' = memory_path
          /\ (pc[p] = "apply" /\ pc'[p] = "done")
                => /\ outcome'[p] = "persisted"
                   /\ todo[p] = NoTodo
                   /\ memory_path' = memory_json[p]]_vars

\* C19: when the file is valid and the update-command output is no parseable
\* JSON, process_output ends in its handler and no step of the call (reading
\* the memory, the failed parse, the return) changes the file; and whatever
\* happened in a call, the value it returns is the llm_output it was given.
C19_ReturnsLlmOutput ==
    [][\A p \in Procs :
          /\ (pc[p] = "idle" /\ pc'[p] = "loaded" /\ outcome'[p] = "valid")
                => memory_path' = memory_path
          /\ (pc[p] = "loaded" /\ outcome[p] = "valid" /\ outcome'[p] = "parse_failed")
                => (pc'[p] = "done" /\ memory_path' = memory_path)
          /\ (pc[p] = "done" /\ llm_output[p] # NoOutput /\ pc'[p] = "idle")
                => (returned'[p] = llm_output[p] /\ memory_path' = memory_path)]_vars

\* C19 witness: a process_output call whose update commands did not parse has
\* returned its llm_output, and the file holds the entries it held before.
C19_Witness ==
    \E p \in Procs :
        /\ pc[p] = "idle"
        /\ outcome[p] = "parse_failed"
        /\ returned[p] \in LlmOutputs
        /\ memory_path = OneEntryDoc

\* C13: two process_output calls are not serialized: when an invocation writes
\* the file after another one that had been given the same document has written
\* it, the file is the document of the later one alone, whatever the earlier
\* one had applied.
C13_LaterWriteOverwrites ==
    [][\A p, q \in Procs :
          (/\ p # q
           /\ pc[p] = "done" /\ outcome[p] = "persisted"
           /\ pc[q] = "apply" /\ outcome'[q] = "persisted"
           /\ read_json[p] = read_json[q])
          => memory_path' = memory_json[q]]_vars

\* C13 witness: both invocations were given the same document, each applied a
\* change of its own and wrote the file; the entry the first one added to "i" is
\* not in the file.
C13_Witness ==
    \E p, q \in Procs :
        /\ p # q
        /\ pc[p] = "done" /\ outcome[p] = "persisted"
        /\ pc[q] = "done" /\ outcome[q] = "persisted"
        /\ read_json[p] = read_json[q]
        /\ memory_json[p] # read_json[p]
        /\ memory_json[q] # read_json[q]
        /\ memory_path = memory_json[q]
        /\ \E k \in 1..Len(memory_json[p].sec["i"]) :
               \A j \in 1..Len(memory_path.sec["i"]) :
                   memory_path.sec["i"][j] # memory_json[p].sec["i"][k]

\* C25: a settings_updated call that follows a successful process_output leaves
\* the file as that call persisted it: it does not put back the content loaded
\* at construction.
C25_SettingsKeepPersisted ==
    [][\A p \in Procs :
          (settings_updates' # settings_updates /\ outcome[p] = "persisted")
              => memory_path' = memory_path]_vars

\* the command attempted last was an "add" of an entry with an id to a list
\* section of the memory, and the command attempted now is for that section
AfterAddTo(p, keys) ==
    /\ cmd[p].kind = "add"
    /\ OnListSection(memory_json[p], cmd[p].c, {"section", "entry"})
    /\ cmd[p].c.entry.t = "obj"
    /\ cmd'[p].c.obj /\ keys \subseteq cmd'[p].c.has
    /\ cmd'[p].c.section = cmd[p].c.section

\* C24: within a batch no "update" is applied while an "add" is left and no
\* "remove" while an "add" or "update" is left; hence an entry removed by id
\* right after it was added is absent from the section, and an entry updated
\* right after it was added holds the updated content.  (Persist writes the
\* memory_json these steps leave.)
C24_AddThenUpdateThenRemove ==
    [][\A p \in Procs :
          LET s   == cmd[p].c.section
              new == memory_json'[p]
          IN  /\ LoopStep(p, "update") => todo[p].add = 0
              /\ LoopStep(p, "remove") => (todo[p].add = 0 /\ todo[p].update = 0)
              /\ (LoopStep(p, "remove") /\ AfterAddTo(p, {"section", "id"})
                    /\ cmd'[p].c.id = cmd[p].c.entry.id)
                 => \A k \in 1..Len(new.sec[s]) : ~IdIs(new.sec[s][k], cmd'[p].c.id)
              /\ (LoopStep(p, "update") /\ AfterAddTo(p, {"section", "entry"})
                    /\ IdIs(cmd'[p].c.entry, cmd[p].c.entry.id))
                 => new.sec[s][Len(new.sec[s])] = cmd'[p].c.entry]_vars

(***************************************************************************)
(* Properties of the boost-mode loop.                                      *)
(***************************************************************************)
\* C2: the content returned is an evaluated attempt with the fewest reported
\* problems: no evaluation of the run reported fewer problems than the one of
\* the returned content.
C2_ReturnsFewestProblems ==
    (b_pc = "returned" /\ reflections # <<>>) =>
        \E k \in 1..Len(reflections) :
            /\ reflections[k].content = best_content
            /\ \A j \in 1..Len(reflections) : reflections[k].n <= reflections[j].n

\* C2 witness: the loop returned an attempt that is not the last one, after
\* evaluations that reported different counts.
C2_Witness ==
    /\ b_pc = "returned"
    /\ Len(reflections) >= 3
    /\ best_content # current_content
    /\ best_content # 1
    /\ \E j, k \in 1..Len(reflections) : reflections[j].n # reflections[k].n

\* an evaluation of the run reported zero problems
ZeroReported == \E k \in 1..Len(reflections) : reflections[k].n = 0

\* C11: the number of evaluations never exceeds max_correction_iterations; after
\* the last allowed evaluation no correction is requested; and once an evaluation
\* reported zero problems it is the last one, the loop has returned and nothing
\* more is requested.
C11_StopsAtZeroOrMax ==
    /\ iterations_done <= max_correction_iterations
    /\ b_pc = "correct" => iterations_done < max_correction_iterations
    /\ ZeroReported =>
          /\ b_pc = "returned"
          /\ reflections[Len(reflections)].n = 0
          /\ \A k \in 1..(Len(reflections) - 1) : reflections[k].n # 0
          /\ iterations_done = Len(reflections)
          /\ current_content = Len(reflections)
          /\ ~ENABLED BoostNext

\* C11 witness: the second of three allowed evaluations reported zero problems
\* and the loop returned.
C11_Witness ==
    /\ b_pc = "returned"
    /\ max_correction_iterations = 3
    /\ Len(reflections) = 2
    /\ reflections[1].n # 0
    /\ reflections[2].n = 0
    /\ iterations_done = 2

\* the reflection output parsed last has no num_problems_detected
LacksCount == reflection_data.kind \in {"malformed", "scalar"}

\* C20: when the reflection output is malformed or lacks num_problems_detected,
\* the loop returns (nothing is raised, no correction and no evaluation follows)
\* and the content returned is the best attempt of the earlier iterations, the
\* initial content when there was none.
C20_MalformedReflectionShortCircuits ==
    LacksCount =>
        /\ b_pc = "returned"
        /\ ~ENABLED BoostNext
        /\ reflections = <<>> => best_content = 1
        /\ reflections # <<>> =>
              \E k \in 1..Len(reflections) :
                  /\ reflections[k].content = best_content
                  /\ \A j \in 1..Len(reflections) : reflections[k].n <= reflections[j].n

\* C26: the final problem count that _run_generation_loop returns is the count
\* an evaluation reported for the content it returns; when nothing was
\* evaluated it is float('inf'), which the report prints as N/A, and never a
\* number that no evaluation produced.
C26_FinalCountWasReported ==
    b_pc = "returned" =>
        \/ reflections = <<>> /\ min_problems = Inf
        \/ \E k \in 1..Len(reflections) :
               /\ reflections[k].content = best_content
               /\ reflections[k].n = min_problems

(***************************************************************************)
(* Properties of the deep search.                                          *)
(***************************************************************************)
\* C7: a run makes at most max_iterations search calls, at most max_iterations
\* analysis calls and at most one synthesis call, and it is never stuck before
\* its end.
C7_BoundedCalls ==
    /\ calls.search <= max_iterations
    /\ calls.analysis <= max_iterations
    /\ calls.synthesis <= 1
    /\ ds_pc \in {"search", "analysis", "synthesis"} => ENABLED DSNext

\* C7 witness: a finished run that used all its iterations.
C7_Witness ==
    /\ ds_pc = "done"
    /\ max_iterations >= 2
    /\ calls.search = max_iterations
    /\ calls.analysis = max_iterations
    /\ calls.synthesis = 1

SourcesListed ==
    ds_pc = "done" /\ constructed_context[Len(constructed_context)] = "Sources consulted"

\* C8: the "Sources consulted" list of a finished run holds every URL a search
\* call returned, and none twice.
C8_SourcesExactlyOnce ==
    SourcesListed =>
        /\ {SourcesConsulted[k].url : k \in 1..Len(SourcesConsulted)} = returned_urls
        /\ \A j, k \in 1..Len(SourcesConsulted) :
              SourcesConsulted[j].url = SourcesConsulted[k].url => j = k

\* C8 witness: a finished run in which one URL came back in two iterations and
\* another URL in one.
C8_Witness ==
    /\ SourcesListed
    /\ Len(SourcesConsulted) >= 2
    /\ \E j, k \in 1..Len(all_results) :
          all_results[j].url = all_results[k].url /\ all_results[j].title # all_results[k].title

\* the analysis of iteration k declared "SUFFICIENT: yes", in any letter case
Declared(k) == analyses[k] \in {"yes", "Yes"}

\* C12: once the analysis of an iteration declares SUFFICIENT: yes, that
\* iteration is the last: the search and analysis calls stay at its number, the
\* loop has been left, and the synthesis, once made, was given the summaries of
\* the iterations 1..k and nothing else.
C12_StopsWhenSufficient ==
    \A k \in 1..Len(analyses) :
        Declared(k) =>
            /\ k = Len(analyses)
            /\ calls.search = k /\ calls.analysis = k
            /\ ds_pc \in {"synthesis", "done"}
            /\ iteration_summaries = [j \in 1..k |-> j]
            /\ calls.synthesis = 1 => synthesis_input = [j \in 1..k |-> j]

\* C12 witness: the second of three allowed iterations was declared sufficient
\* in capitals, after a first that was not, and the synthesis was made.
C12_Witness ==
    /\ ds_pc = "done"
    /\ max_iterations = 3
    /\ analyses = <<"No", "Yes">>
    /\ calls.synthesis = 1
    /\ synthesis_input = <<1, 2>>

\* C21: a call without a query, with an engine that is not in the engine table,
\* or with a paid engine that has no API key ends at once with an ERROR line as
\* the last line of the context, and makes no search call, no LLM call (analysis
\* or synthesis) and no log file.
C21_InvalidParametersNoSideEffect ==
    (ds_pc # "start"
       /\ (~parameters.query \/ parameters.engine \in {"unknown", "nokey"}))
    => /\ ds_pc = "done"
       /\ calls = NoCalls
       /\ all_results = <<>> /\ returned_urls = {}
       /\ constructed_context # <<>>
       /\ constructed_context[Len(constructed_context)] \in
             {"ERROR: No search query provided", "ERROR: Invalid search engine",
              "ERROR: requires an API key", "ERROR: An error occurred"}

\* C21 witness: a call with a query and convertible numbers for a paid engine
\* without a key has ended with the API key error.
C21_Witness ==
    /\ ds_pc = "done"
    /\ parameters = [query |-> TRUE, engine |-> "nokey", ints |-> TRUE]
    /\ constructed_context = <<"[Deep searching]", "ERROR: requires an API key">>
    /\ calls = NoCalls

(***************************************************************************)
(* Properties of the shell.                                                *)
(***************************************************************************)
\* C9: once the read timed out, the lines PersistentShell.execute returns are
\* the lines the reader thread had enqueued until then, in the order it enqueued
\* them (what it enqueues later stays on the queue), and ExecuteBashCommand.execute
\* ends with a string, never with an exception.
C9_PartialOutputInOrder ==
    /\ timed_out => output_lines \o output_queue = produced
    /\ sh_pc = "done" => sh_result \in {"Execution output", "error string"}

\* C9 witness: a run that timed out after two different lines and returned them
\* while the shell printed one more line afterwards.
C9_Witness ==
    /\ sh_pc = "done"
    /\ timed_out
    /\ Len(output_lines) = 2
    /\ output_lines[1] # output_lines[2]
    /\ output_queue # <<>>
    /\ sh_result = "Execution output"

(***************************************************************************)
(* Properties of the folder-to-text plugin.                                *)
(***************************************************************************)
NoFolderPath == kwargs_get(folder_path) \in {"", NoneValue}

\* C10: when folder_path is missing or empty, execute lists no directory, reads
\* no file and writes no copy to the discussion folder, and what it returns is
\* the "No folder path provided" error.
C10_NoPathNoTraversal ==
    NoFolderPath =>
        /\ listed = {} /\ files_read = {} /\ ~copy_written
        /\ tree_lines = <<>> /\ pending = <<>>
        /\ ft_pc = "done" => ft_result = "Error: No folder path provided."

\* C10 witness: a finished call with an empty folder_path, with the copy to the
\* discussion folder switched on and the discussion folder there.
C10_Witness ==
    /\ ft_pc = "done"
    /\ folder_path = ""
    /\ save_to_discussion_folder
    /\ ft_discussion_folder = "ok"
    /\ ft_result = "Error: No folder path provided."

\* item n lies under directory d, at any depth
RECURSIVE Under(_, _)
Under(n, d) == n \in Items /\ (Tree[n].parent = d \/ Under(Tree[n].parent, d))

\* a directory of the tree that the exclusions of this call exclude
ExcludedDir(d) ==
    /\ d \in Items /\ is_dir(d)
    /\ is_excluded(d, parse_static_exclusions(exclusion_preset), exclude_patterns)

InTree(n)     == \E k \in 1..Len(tree_lines) : tree_lines[k] = n
InContents(n) == n \in files_read \/ \E k \in 1..Len(found_files) : found_files[k] = n

\* C30: an excluded directory is never listed, neither it nor anything under it
\* is in the tree view or among the files whose content is given, and every
\* file whose content is given is in the tree view.
C30_ExcludedNeverDescended ==
    /\ \A d \in Items :
          ExcludedDir(d) =>
              /\ d \notin listed
              /\ \A n \in Items :
                    (n = d \/ Under(n, d)) => (~InTree(n) /\ ~InContents(n))
    /\ \A n \in Items : InContents(n) => InTree(n)

\* C30 witness: a finished call under the custom static exclusions and a dynamic
\* pattern, in which two directories that hold text files were excluded and the
\* content of a file elsewhere was given.
C30_Witness ==
    /\ ft_pc = "done"
    /\ exclusion_preset = "Custom"
    /\ exclude_patterns # {}
    /\ Cardinality({d \in Items : ExcludedDir(d) /\ \E n \in Items :
                        Under(n, d) /\ is_file(n) /\ is_text_file(n)}) >= 2
    /\ files_read # {}

(***************************************************************************)
(* Properties of the GitHub and README plugins.                            *)
(***************************************************************************)
\* C6: no call of GitHubRepoManager.execute or CreateReadme.execute ends with an
\* exception that reaches the orchestrator; a failing external action gives an
\* error string.
C6_NoExceptionPropagates ==
    g_result # "exception" /\ rd_result # "exception"

\* C27: after a failed repository creation a later execute call creates the
\* repository and adds the origin remote before it stages, commits and pushes:
\* execute stages, commits or pushes only on a folder whose origin remote was
\* added, and no push was ever attempted without it.
C27_PushOnlyWithOrigin ==
    /\ g_pc \in {"add", "commit", "push"} => origin_added
    /\ \A with_origin \in pushes : with_origin

(***************************************************************************)
(* Properties of update_context.                                           *)
(***************************************************************************)
IsPrefix(a, b) == Len(a) <= Len(b) /\ SubSeq(b, 1, Len(a)) = a

\* C14: at every point of an update_context call the list holds the elements it
\* was given, in their order, as a prefix, and the list returned is that list:
\* nothing present before the call is removed, reordered or rewritten, whether
\* the call succeeds, reports an error or raises.
C14_ContextOnlyAccumulates ==
    /\ IsPrefix(cx_input, cx_list)
    /\ cx_pc = "done" => cx_returned = cx_list /\ IsPrefix(cx_input, cx_returned)

\* C14 witness: the debate plugin returned a list of two received fragments
\* followed by what it added with append and with +=.
C14_Witness ==
    /\ cx_pc = "done"
    /\ cx_plugin = "engage_in_debate_mode"
    /\ Len(cx_input) = 2
    /\ cx_input[1] # cx_input[2]
    /\ Len(cx_returned) > Len(cx_input) + 3

(***************************************************************************)
(* Properties of the Outlook agenda plugin.                                *)
(***************************************************************************)
\* the cache is missing, unreadable, or its last_sync is more than
\* cache_duration minutes old
StaleCache ==
    \/ cache_file.kind = "missing"
    \/ cache_file.kind = "unreadable"
    \/ now - cache_file.last_sync > cache_duration

\* C23: get_events_for_date calls sync_with_outlook if and only if the cache
\* file is missing, unreadable or older than cache_duration minutes; a call
\* that found the cache fresh asked Outlook nothing and returns the events the
\* cache stores for its date_str.
C23_SyncIffStale ==
    [][/\ (o_pc = "check" /\ o_pc' # "check") => ((o_pc' = "sync") <=> StaleCache)
       /\ (o_pc = "sync") => StaleCache
       /\ (o_pc = "read" /\ o_pc' = "idle" /\ ~o_synced /\ date_arg.type = "str")
            => o_events' = IF cache_file.has_events
                           THEN cache_file.events[date_arg.day] ELSE <<>>]_vars

\* C23 witness: get_events_for_date returned a stored event without a sync,
\* from a cache that is exactly cache_duration minutes old.
C23_Witness ==
    /\ o_pc = "idle"
    /\ o_caller = "get_events_for_date"
    /\ ~o_synced
    /\ cache_file.kind = "ok"
    /\ now - cache_file.last_sync = cache_duration
    /\ o_events = <<"meeting">>

\* C29: when the cache holds an event for today, the text update_context
\* appended lists the events of today and not "No events scheduled for this
\* date."
C29_TodaysEventsListed ==
    (/\ o_pc = "idle"
     /\ o_caller = "update_context"
     /\ cache_file.kind = "ok" /\ cache_file.has_events
     /\ cache_file.events[Today] # <<>>)
    => agenda_context = cache_file.events[Today]

(***************************************************************************)
(* Properties of FunctionCallBuilder.execute.                              *)
(***************************************************************************)
\* the name, the description or the core logic is missing, or the type is
\* neither CLASSIC nor CONTEXT_UPDATE in any letter case
InvalidKwargs(kw) ==
    \/ kw.new_function_name = ""
    \/ ~kw.new_function_description
    \/ ~kw.new_function_core_logic
    \/ kw.new_function_type \notin {"absent", "CLASSIC", "classic", "CONTEXT_UPDATE"}

\* C22: a call of execute whose required arguments are incomplete or whose
\* type is invalid returns an error string in its first step, with no LLM
\* call and no directory or file created, in boost mode or not.
C22_InvalidKwargsReturnError ==
    [][(x_pc = "idle" /\ InvalidKwargs(kwargs'))
         => /\ x_returned' = "error"
            /\ x_pc' = "idle"
            /\ llm_calls' = 0
            /\ UNCHANGED fsVars]_vars

\* C28: a call whose target directory exists returns an error and writes
\* nothing; a call whose YAML or Python generation fails returns an error and
\* creates nothing; and no step changes the files of a directory that exists.
C28_NeverOverwrites ==
    [][/\ (x_pc = "resolve"
             /\ safe_fn_name(kwargs.new_function_name) \in function_dirs)
            => (x_returned' = "error" /\ x_pc' = "idle" /\ UNCHANGED fsVars)
       /\ (x_pc \in {"yaml", "python"} /\ x_pc' = "idle")
            => (x_returned' = "error" /\ UNCHANGED fsVars)
       /\ \A p \in function_dirs :
            p \in function_dirs' /\ function_files'[p] = function_files[p]]_vars

\* C28 witness: a build was refused for a folder that holds an earlier
\* function while another function was created by an earlier call.
C28_Witness ==
    /\ x_pc = "idle"
    /\ x_returned = "error"
    /\ check_kwargs(kwargs) = "ok"
    /\ safe_fn_name(kwargs.new_function_name) = "fn_a"
    /\ function_files["fn_a"] = OldFiles
    /\ function_files["fn_b"] = [config |-> "new", function |-> "new"]

(***************************************************************************)
(* The specifications.                                                     *)
(***************************************************************************)
\* one session of the long-term memory: its calls, one after the other
InitMem == MemInit(FileInputs, {1}) /\ BoostIdle /\ DSIdle /\ ShIdle /\ FtIdle /\ GitIdle /\ CtxIdle /\ OutIdle /\ BuildIdle
SpecMem == InitMem /\ [][MemNext]_vars

\* two sessions of the long-term memory on one file, their calls interleaved
InitRace == MemInit({DefaultMemory}, Procs) /\ BoostIdle /\ DSIdle /\ ShIdle /\ FtIdle /\ GitIdle /\ CtxIdle /\ OutIdle /\ BuildIdle
SpecRace == InitRace /\ [][RaceNext]_vars

\* one session of the long-term memory with settings_updated calls
InitSettings == MemInit({DefaultMemory, OneEntryDoc}, {1}) /\ BoostIdle /\ DSIdle /\ ShIdle /\ FtIdle /\ GitIdle /\ CtxIdle /\ OutIdle /\ BuildIdle
SpecSettings == InitSettings /\ [][SettingsNext]_vars

InitBoost == BoostInit /\ MemIdle /\ DSIdle /\ ShIdle /\ FtIdle /\ GitIdle /\ CtxIdle /\ OutIdle /\ BuildIdle
SpecBoost == InitBoost /\ [][BoostNext]_vars

InitDS == DSInit /\ MemIdle /\ BoostIdle /\ ShIdle /\ FtIdle /\ GitIdle /\ CtxIdle /\ OutIdle /\ BuildIdle
SpecDS == InitDS /\ [][DSNext]_vars

InitShell == ShInit /\ MemIdle /\ BoostIdle /\ DSIdle /\ FtIdle /\ GitIdle /\ CtxIdle /\ OutIdle /\ BuildIdle
SpecShell == InitShell /\ [][ShNext]_vars

InitFolder == FtInit /\ MemIdle /\ BoostIdle /\ DSIdle /\ ShIdle /\ GitIdle /\ CtxIdle /\ OutIdle /\ BuildIdle
SpecFolder == InitFolder /\ [][FtNext]_vars

InitGit == GitInit /\ MemIdle /\ BoostIdle /\ DSIdle /\ ShIdle /\ FtIdle /\ CtxIdle /\ OutIdle /\ BuildIdle
SpecGit == InitGit /\ [][GitNext]_vars

InitContext == CtxInit /\ MemIdle /\ BoostIdle /\ DSIdle /\ ShIdle /\ FtIdle /\ GitIdle /\ OutIdle /\ BuildIdle
SpecContext == InitContext /\ [][CtxNext]_vars

InitOutlook == OutInit /\ MemIdle /\ BoostIdle /\ DSIdle /\ ShIdle /\ FtIdle /\ GitIdle /\ CtxIdle /\ BuildIdle
SpecOutlook == InitOutlook /\ [][OutNext]_vars

InitBuild == BuildInit /\ MemIdle /\ BoostIdle /\ DSIdle /\ ShIdle /\ FtIdle /\ GitIdle /\ CtxIdle /\ OutIdle
SpecBuild == InitBuild /\ [][BuildNext]_vars

====
